---------------------------- MODULE Spec2Model ----------------------------
(***************************************************************************)
(* A model of the shapefile-to-KML conversion server (backend/server.js):  *)
(* the upload handler, the processShapefile pipeline with every await as   *)
(* one step, the status and download endpoints, and combineKmlFiles; and   *)
(* of the client (frontend/src/App.jsx): validateZipContents and the       *)
(* selection of a file up to its upload.                                   *)
(*                                                                         *)
(* Text is modelled as a sequence of tokens: a KML document is a sequence  *)
(* of tags and text runs, a file name a sequence of name parts whose last  *)
(* part is its extension, a message a sequence of lines.  An optional      *)
(* field (undefined or a value) is a sequence of length 0 or 1.            *)
(***************************************************************************)
EXTENDS Naturals, Sequences, FiniteSets

VARIABLES
    store,        \* the Conversion collection: job id -> document, or NoRecord
    pc,           \* where each processShapefile run stands
    loc,          \* the locals of each run that later steps still read
    disk,         \* the paths that exist under uploads/, temp/ and output/
    outFiles,     \* the listing of output/<id>: a sequence of {fileName, content}
    now,          \* the clock: Date.now() / new Date()
    nextId,       \* the next uuid uuidv4() hands out
    serverUp,     \* FALSE once an uncaught exception has ended the node process
    res,          \* the HTTP exchange of the last step, NoResponse if it had none
    lastRead,     \* per job: the status the last status read returned
    combinedKml,  \* combineKmlFiles: the document built so far
    perSource,    \* combineKmlFiles: the fragments extracted from each source so far
    lastSource,   \* combineKmlFiles: the text of the source read last, None before
    cpc,          \* combineKmlFiles: "loop" or "done"
    selectedFile, \* client: the file handed to handleFileSelect, None before
    awaiting,     \* client: the await the client stands at, "none" without one
    validationModal, \* client: {isOpen, message}
    status,       \* client: 'IDLE', 'PROCESSING', 'SUCCESS' or 'ERROR'
    clientError,  \* client: the state `error`, None without one
    clientConversionId, \* client: the state `conversionId`, None before an upload answers
    posted,       \* client: the number of POST /api/upload requests sent
    kmlResult,    \* client: the state `kmlResult`, None before a result is shown
    statusData,   \* client: the status body pollStatus holds across its second await
    closure,      \* client: `file` and `result.id` as the pending handleFileSelect call holds them
    second        \* client: a second handleFileSelect call pending beside the first

vars == <<store, pc, loc, disk, outFiles, now, nextId, serverUp, res,
          lastRead, combinedKml, perSource, lastSource, cpc, selectedFile, awaiting,
          validationModal, status, clientError, clientConversionId, posted,
          kmlResult, statusData, closure, second>>

serverVars == <<store, pc, loc, disk, outFiles, now, nextId, serverUp, res, lastRead>>

combineVars == <<combinedKml, perSource, lastSource, cpc>>

clientVars == <<selectedFile, awaiting, validationModal, status, clientError,
                clientConversionId, posted, kmlResult, statusData,
                closure, second>>

-----------------------------------------------------------------------------
(* Bounds *)

\* the number of uploads accepted in one behaviour
MaxJobs == 1
\* the longest source document combineKmlFiles is applied to, in tokens
MaxDocLen == 5
\* the most source documents one combineKmlFiles call is given
MaxFiles == 2

JobIds == 1..MaxJobs

-----------------------------------------------------------------------------
(* Optional values *)

None == << >>

Some(x) == <<x>>

-----------------------------------------------------------------------------
(* Sequence helpers *)

RECURSIVE Flatten(_)
Flatten(ss) == IF ss = << >> THEN << >> ELSE Head(ss) \o Flatten(Tail(ss))

\* Array.prototype.join over token sequences
RECURSIVE Join(_, _)
Join(ss, sep) ==
    IF ss = << >> THEN << >>
    ELSE IF Len(ss) = 1 THEN ss[1]
    ELSE ss[1] \o sep \o Join(Tail(ss), sep)

\* the strings over alphabet A of length at most n
Strings(A, n) == UNION {[1..k -> A] : k \in 0..n}

\* String.prototype.endsWith for a name and an extension
EndsWith(name, ext) == Len(name) > 0 /\ name[Len(name)] = ext

-----------------------------------------------------------------------------
(* KML text and the regular expressions of combineKmlFiles *)

PO == "<Placemark>"
PC == "</Placemark>"
DO == "<Document>"
DC == "</Document>"
KO == "<kml>"
KC == "</kml>"

\* the index of the first t in s at or after position p, or 0
RECURSIVE IndexFrom(_, _, _)
IndexFrom(s, t, p) ==
    IF p > Len(s) THEN 0
    ELSE IF s[p] = t THEN p
    ELSE IndexFrom(s, t, p + 1)

\* s.match(/<open>[\s\S]*?<\/close>/g) from position p on: the leftmost open
\* tag that a close tag follows, up to the first close tag after it (the
\* quantifier is lazy), then on from behind that match
RECURSIVE MatchAllFrom(_, _, _, _)
MatchAllFrom(s, open, close, p) ==
    LET i == IndexFrom(s, open, p)
        k == IF i = 0 THEN 0 ELSE IndexFrom(s, close, i + 1)
    IN  IF i = 0 \/ k = 0 THEN << >>
        ELSE <<SubSeq(s, i, k)>> \o MatchAllFrom(s, open, close, k + 1)

\* kmlContent.match(/<Placemark>[\s\S]*?<\/Placemark>/g), null as << >>
MatchPlacemarks(s) == MatchAllFrom(s, PO, PC, 1)

\* kmlContent.match(/<Document>[\s\S]*?<\/Document>/): None, or Some(match[0])
MatchDocument(s) ==
    LET i == IndexFrom(s, DO, 1)
        k == IF i = 0 THEN 0 ELSE IndexFrom(s, DC, i + 1)
    IN  IF i = 0 \/ k = 0 THEN None ELSE Some(SubSeq(s, i, k))

\* kmlContent.match(/<kml[^>]*>([\s\S]*?)<\/kml>/): None, or Some(match[1])
MatchKml(s) ==
    LET i == IndexFrom(s, KO, 1)
        k == IF i = 0 THEN 0 ELSE IndexFrom(s, KC, i + 1)
    IN  IF i = 0 \/ k = 0 THEN None ELSE Some(SubSeq(s, i + 1, k - 1))

\* an extraction that looks into the Document section before the whole text
ExtractDocumentFirst(kmlContent) ==
    LET directPlacemarks == MatchPlacemarks(kmlContent)
        documentMatch == MatchDocument(kmlContent)
        innerPlacemarks ==
            IF documentMatch = None THEN << >>
            ELSE MatchPlacemarks(documentMatch[1])
        kmlMatch == MatchKml(kmlContent)
        allPlacemarks ==
            IF kmlMatch = None THEN << >> ELSE MatchPlacemarks(kmlMatch[1])
    IN  IF innerPlacemarks # << >> THEN innerPlacemarks
        ELSE IF directPlacemarks # << >> THEN directPlacemarks
        ELSE allPlacemarks

\* an extraction that looks between the kml tags before the whole text
ExtractRootFirst(kmlContent) ==
    LET directPlacemarks == MatchPlacemarks(kmlContent)
        documentMatch == MatchDocument(kmlContent)
        innerPlacemarks ==
            IF documentMatch = None THEN << >>
            ELSE MatchPlacemarks(documentMatch[1])
        kmlMatch == MatchKml(kmlContent)
        allPlacemarks ==
            IF kmlMatch = None THEN << >> ELSE MatchPlacemarks(kmlMatch[1])
    IN  IF allPlacemarks # << >> THEN allPlacemarks
        ELSE IF innerPlacemarks # << >> THEN innerPlacemarks
        ELSE directPlacemarks

\* the three extraction methods of one loop iteration of combineKmlFiles
ExtractPlacemarks(kmlContent) ==
    LET directPlacemarks == MatchPlacemarks(kmlContent)
        documentMatch == MatchDocument(kmlContent)
        innerPlacemarks ==
            IF documentMatch = None THEN << >>
            ELSE MatchPlacemarks(documentMatch[1])
        kmlMatch == MatchKml(kmlContent)
        allPlacemarks ==
            IF kmlMatch = None THEN << >> ELSE MatchPlacemarks(kmlMatch[1])
    IN  IF directPlacemarks # << >> THEN directPlacemarks
        ELSE IF innerPlacemarks # << >> THEN innerPlacemarks
        ELSE allPlacemarks

\* the opening of the combined document: the xml declaration, the kml and
\* Document tags, the name and the description
CombinedHeader == <<"<?xml?>", KO, DO, "<name>", "<description>">>

\* the closing '\n  </Document>\n</kml>'
CombinedFooter == <<"\n", DC, KC>>

\* an append that keeps only the first fragment of a source (a match without
\* the g flag)
AppendFirstPlacemark(combined, placemarkElements) ==
    IF Len(placemarkElements) > 0
    THEN combined \o <<"\n">> \o placemarkElements[1]
    ELSE combined

\* an append that leaves a note for a source without fragments
AppendPlacemarksOrNote(combined, placemarkElements) ==
    IF Len(placemarkElements) > 0
    THEN combined \o <<"\n">> \o Join(placemarkElements, <<"\n">>)
    ELSE combined \o <<"\n", "<!-- no Placemark -->">>

\* what one source adds: '\n    ' + placemarkElements.join('\n    '), or
\* nothing when no fragment was found
AppendPlacemarks(combined, placemarkElements) ==
    IF Len(placemarkElements) > 0
    THEN combined \o <<"\n">> \o Join(placemarkElements, <<"\n">>)
    ELSE combined

\* combineKmlFiles over the contents of the files, in the order given
RECURSIVE CombineFrom(_, _)
CombineFrom(combined, contents) ==
    IF contents = << >> THEN combined \o CombinedFooter
    ELSE CombineFrom(AppendPlacemarks(combined, ExtractPlacemarks(Head(contents))),
                     Tail(contents))

combineKmlFiles(contents) == CombineFrom(CombinedHeader, contents)

-----------------------------------------------------------------------------
(* The converter's captured output and the marker scan of processShapefile *)

ValidationMarker == "Shapefile validation errors:"
NoValidMarker == "No valid shapefiles found"
FilesFoundHeader == "Files found in the directory:"
Bullet == "- "
Blank == " "

\* line.includes(marker): a line is a sequence of tokens
Includes(line, marker) == \E i \in 1..Len(line) : line[i] = marker

RECURSIVE TrimStart(_)
TrimStart(line) ==
    IF line # << >> /\ Head(line) = Blank THEN TrimStart(Tail(line)) ELSE line

RECURSIVE TrimEnd(_)
TrimEnd(line) ==
    IF line # << >> /\ line[Len(line)] = Blank
    THEN TrimEnd(SubSeq(line, 1, Len(line) - 1))
    ELSE line

\* String.prototype.trim
Trim(line) == TrimEnd(TrimStart(line))

\* a loop that does not stop at the blank line
RECURSIVE DetailLinesToEnd(_, _, _)
DetailLinesToEnd(lines, header, inSection) ==
    IF lines = << >> THEN << >>
    ELSE LET line == Head(lines)
         IN  IF Includes(line, header)
             THEN DetailLinesToEnd(Tail(lines), header, TRUE)
             ELSE IF inSection /\ Trim(line) # << >> /\ Head(Trim(line)) = Bullet
             THEN <<Trim(line)>> \o DetailLinesToEnd(Tail(lines), header, inSection)
             ELSE DetailLinesToEnd(Tail(lines), header, inSection)

\* the for loop over the lines: the trimmed '- ' lines behind the line that
\* holds the header, up to the first blank line behind it
RECURSIVE DetailLines(_, _, _)
DetailLines(lines, header, inSection) ==
    IF lines = << >> THEN << >>
    ELSE LET line == Head(lines)
         IN  IF Includes(line, header)
             THEN DetailLines(Tail(lines), header, TRUE)
             ELSE IF inSection /\ Trim(line) # << >> /\ Head(Trim(line)) = Bullet
             THEN <<Trim(line)>> \o DetailLines(Tail(lines), header, inSection)
             ELSE IF inSection /\ Trim(line) = << >>
             THEN << >>
             ELSE DetailLines(Tail(lines), header, inSection)

\* allOutput = [...results, errorOutput].join('\n'), as its lines: every
\* stderr chunk is appended with a '\n', so that the text ends in an empty line
AllOutput(captured) == captured.stdout \o captured.stderr \o << << >> >>

HasMarker(allOutput) ==
    \E i \in 1..Len(allOutput) :
        Includes(allOutput[i], ValidationMarker) \/ Includes(allOutput[i], NoValidMarker)

\* the errorMessage thrown when the output holds a marker
MarkerErrorMessage(allOutput) ==
    IF \E i \in 1..Len(allOutput) : Includes(allOutput[i], ValidationMarker)
    THEN LET errorLines == DetailLines(allOutput, ValidationMarker, FALSE)
         IN  IF Len(errorLines) > 0
             THEN << <<"Shapefile validation failed:">> >> \o errorLines
             ELSE allOutput
    ELSE LET fileLines == DetailLines(allOutput, FilesFoundHeader, FALSE)
         IN  IF Len(fileLines) > 0
             THEN << <<"No valid shapefiles found. Files in your ZIP:">> >>
                  \o fileLines
                  \o << << >>, <<"Please ensure your ZIP contains complete shapefiles">> >>
             ELSE allOutput

\* what the converter may print
CapturedOutputs ==
    { [stdout |-> << <<"Converted">> >>, stderr |-> << >>],
      [stdout |-> << <<ValidationMarker>>, <<Blank, Bullet, "a.shp: missing a.dbf">> >>,
       stderr |-> << >>],
      [stdout |-> << <<"Error: ", ValidationMarker>> >>, stderr |-> << <<"Traceback">> >>],
      [stdout |-> << <<NoValidMarker>>, <<FilesFoundHeader>>, <<Bullet, "readme.txt">> >>,
       stderr |-> << >>] }

-----------------------------------------------------------------------------
(* The Conversion documents *)

NoRecord == [status |-> "none"]

\* a handler that answers without having saved the document
NewConversionNotSaved(conversionId, originalFileName, t) == NoRecord

\* new Conversion({id, originalFileName, status: 'processing'}) with the
\* schema's defaults
NewConversion(conversionId, originalFileName, t) ==
    [id |-> conversionId,
     originalFileName |-> originalFileName,
     status |-> "processing",
     kmlFileName |-> None,
     kmlContent |-> None,
     processedFiles |-> << >>,
     individualFiles |-> << >>,
     error |-> None,
     createdAt |-> t,
     completedAt |-> None]

\* an update of the success path that renames the record after its output
CompletedUpdateRenames(doc, kmlFileName, kmlContent, kmlFiles, individualFiles, t) ==
    [doc EXCEPT !.status = "completed",
                !.originalFileName = kmlFileName,
                !.kmlFileName = Some(kmlFileName),
                !.kmlContent = Some(kmlContent),
                !.processedFiles = kmlFiles,
                !.individualFiles = individualFiles,
                !.completedAt = Some(t)]

\* the update of the success path
CompletedUpdate(doc, kmlFileName, kmlContent, kmlFiles, individualFiles, t) ==
    [doc EXCEPT !.status = "completed",
                !.kmlFileName = Some(kmlFileName),
                !.kmlContent = Some(kmlContent),
                !.processedFiles = kmlFiles,
                !.individualFiles = individualFiles,
                !.completedAt = Some(t)]

\* a catch block that puts the job back to 'processing' for another try
FailedUpdateRequeues(doc, message, t) ==
    [doc EXCEPT !.status = "processing",
                !.error = Some(message),
                !.completedAt = Some(t)]

\* the update of the catch block
FailedUpdate(doc, message, t) ==
    [doc EXCEPT !.status = "failed",
                !.error = Some(message),
                !.completedAt = Some(t)]

-----------------------------------------------------------------------------
(* Paths, archives and converter outputs *)

\* path.join(__dirname, 'temp', conversionId)
ExtractDir(conversionId) == [dir |-> "temp", uuid |-> conversionId, name |-> << >>]

\* path.join(__dirname, 'output', conversionId)
OutputDir(conversionId) == [dir |-> "output", uuid |-> conversionId, name |-> << >>]

\* multer's filename: uploads/`${uniqueId}_${file.originalname}`
StoredUploadPath(uniqueId, originalname) ==
    [dir |-> "uploads", uuid |-> uniqueId, name |-> originalname]

\* the catch block's path.join(__dirname, 'uploads', originalFileName): no
\* uuid prefix (uuid 0)
CleanupUploadPath(originalFileName) ==
    [dir |-> "uploads", uuid |-> 0, name |-> originalFileName]

UploadNames == { <<"parcels", ".zip">>, <<"roads", ".ZIP">> }

\* what extracting an archive leaves in the extraction directory: the files
\* at its root and its immediate subdirectories, in readdir order
Archives ==
    { [files |-> { <<"a", ".shp">>, <<"a", ".shx">>, <<"a", ".dbf">> }, dirs |-> << >>],
      [files |-> { },
       dirs |-> << [name |-> "docs", files |-> { <<"readme", ".txt">> }],
                   [name |-> "data", files |-> { <<"a", ".shp">>, <<"a", ".shx">>,
                                                 <<"a", ".dbf">> }] >>],
      [files |-> { <<"a", ".shp">>, <<"a", ".shx">>, <<"a", ".dbf">> },
       dirs |-> << [name |-> "data", files |-> { <<"b", ".shp">>, <<"b", ".shx">>,
                                                 <<"b", ".dbf">> }] >>],
      [files |-> { <<"readme", ".txt">> },
       dirs |-> << [name |-> "docs", files |-> { <<"readme", ".txt">> }] >>] }

\* a search that uses the extraction root when the root holds a .shp file
InputPathRootFirst(tree) ==
    LET hits == SelectSeq(tree.dirs,
                          LAMBDA d : \E f \in d.files : EndsWith(f, ".shp"))
    IN  IF \E f \in tree.files : EndsWith(f, ".shp") THEN << >>
        ELSE IF hits # << >> THEN <<hits[1].name>> ELSE << >>

\* a search that uses the first subdirectory without looking into it
InputPathFirstSubdir(tree) ==
    IF Len(tree.dirs) > 0 THEN <<tree.dirs[1].name>> ELSE << >>

\* the input directory search: the extraction root unless a subdirectory
\* holds a .shp file, then the first such subdirectory
InputPath(tree) ==
    LET hits == SelectSeq(tree.dirs,
                          LAMBDA d : \E f \in d.files : EndsWith(f, ".shp"))
    IN  IF Len(tree.dirs) > 0 /\ hits # << >> THEN <<hits[1].name>> ELSE << >>

OneFragment == <<KO, DO, PO, "<name>", PC, DC, KC>>
TwoFragments == <<KO, PO, "<name>", PC, PO, "<Point>", PC, KC>>
NoFragment == <<KO, DO, DC, KC>>

\* what the converter may leave in the output directory, in readdir order
OutputListings ==
    { << >>,
      << [fileName |-> <<"a", ".log">>, content |-> <<"log">>] >>,
      << [fileName |-> <<"a", ".kml">>, content |-> OneFragment] >>,
      << [fileName |-> <<"a", ".kml">>, content |-> TwoFragments],
         [fileName |-> <<"b", ".kml">>, content |-> OneFragment] >>,
      << [fileName |-> <<"a", ".kml">>, content |-> NoFragment],
         [fileName |-> <<"b", ".kml">>, content |-> OneFragment] >>,
      << [fileName |-> <<"a", ".kml">>, content |-> NoFragment],
         [fileName |-> <<"a", ".log">>, content |-> <<"log">>],
         [fileName |-> <<"b", ".kml">>, content |-> NoFragment] >> }

\* a combined name that keeps the archive's extension
CombinedFileNameKeepsZip(originalFileName) == <<"combined_">> \o originalFileName

\* originalFileName.replace(/\.zip$/, '.kml') behind 'combined_'
CombinedFileName(originalFileName) ==
    <<"combined_">> \o
    (IF EndsWith(originalFileName, ".zip")
     THEN SubSeq(originalFileName, 1, Len(originalFileName) - 1) \o <<".kml">>
     ELSE originalFileName)

-----------------------------------------------------------------------------
(* Error messages *)

ExecutionFailedMessage == << <<"Failed to execute shapefile conversion script">> >>
NoKmlMessage == << <<"No KML files generated">> >>
FsErrorMessage == << <<"EIO: i/o error">> >>
ZipErrorMessage == << <<"Invalid or unsupported zip format">> >>
RemoveErrorMessage == << <<"EBUSY: resource busy or locked">> >>
DbErrorMessage == << <<"MongoNetworkError">> >>

-----------------------------------------------------------------------------
(* validateZipContents (frontend/src/App.jsx) *)

\* the most entries in the listing of a selected archive
MaxEntries == 4

\* String.prototype.toLowerCase on one part of a name
LowerPart(part) ==
    CASE part = "A" -> "a"
      [] part = "D" -> "d"
      [] part = ".SHP" -> ".shp"
      [] part = ".SHX" -> ".shx"
      [] part = ".DBF" -> ".dbf"
      [] OTHER -> part

\* f.toLowerCase()
ToLowerCase(name) == [i \in 1..Len(name) |-> LowerPart(name[i])]

\* name.replace(part, ''): with a string pattern only the first occurrence
\* is replaced
ReplaceFirst(name, part) ==
    LET i == IndexFrom(name, part, 1)
    IN  IF i = 0 THEN name
        ELSE SubSeq(name, 1, i - 1) \o SubSeq(name, i + 1, Len(name))

\* const baseName = shpFile.replace('.shp', '')
BaseName(shpFile) == ReplaceFirst(shpFile, ".shp")

\* [`${baseName}.shp`, `${baseName}.shx`, `${baseName}.dbf`]
RequiredFiles(baseName) ==
    << baseName \o <<".shp">>, baseName \o <<".shx">>, baseName \o <<".dbf">> >>

\* files.some(f => f === reqFile.toLowerCase())
SomeIs(files, reqFile) == \E i \in 1..Len(files) : files[i] = ToLowerCase(reqFile)

\* what the loop body computes for one .shp file
MissingComponent(files, shpFile) ==
    LET baseName == BaseName(shpFile)
        requiredFiles == RequiredFiles(baseName)
    IN  [shapefile |-> baseName \o <<".shp">>,
         missing |-> SelectSeq(requiredFiles, LAMBDA reqFile : ~SomeIs(files, reqFile)),
         found |-> SelectSeq(requiredFiles, LAMBDA reqFile : SomeIs(files, reqFile))]

\* const shpFiles = files.filter(f => f.endsWith('.shp'))
ShpFiles(files) == SelectSeq(files, LAMBDA f : EndsWith(f, ".shp"))

\* missingComponents behind the loop: one entry, in order, for every .shp
\* file with a required file missing
MissingComponents(files) ==
    LET shpFiles == ShpFiles(files)
        all == [i \in 1..Len(shpFiles) |-> MissingComponent(files, shpFiles[i])]
    IN  SelectSeq(all, LAMBDA comp : comp.missing # << >>)

\* a message of the validator is a sequence of lines, a line a fixed text and
\* the file names written into it
NoShapefileError ==
    << [text |-> "No shapefile (.shp) found in the ZIP file.", names |-> << >>] >>

ReadZipError ==
    << [text |-> "Error reading ZIP file", names |-> << >>] >>

\* the three lines written for one entry of missingComponents
ComponentLines(comp) ==
    << [text |-> "is missing:", names |-> <<comp.shapefile>>],
       [text |-> "Missing:", names |-> comp.missing],
       IF Len(comp.found) > 0
       THEN [text |-> "Found:", names |-> comp.found]
       ELSE [text |-> "Found: None", names |-> << >>] >>

\* errorMessage
ValidationFailedError(missingComponents) ==
    << [text |-> "Shapefile validation failed:", names |-> << >>] >>
    \o Flatten([i \in 1..Len(missingComponents) |-> ComponentLines(missingComponents[i])])
    \o << [text |-> "A complete shapefile requires: .shp, .shx, and .dbf files",
           names |-> << >>] >>

\* validateZipContents(file): file.readable says whether JSZip.loadAsync
\* resolves, file.names is Object.keys(zip.files)
validateZipContents(file) ==
    IF ~file.readable
    THEN [isValid |-> FALSE, error |-> Some(ReadZipError)]
    ELSE LET files == [i \in 1..Len(file.names) |-> ToLowerCase(file.names[i])]
             missingComponents == MissingComponents(files)
         IN  IF Len(ShpFiles(files)) = 0
             THEN [isValid |-> FALSE, error |-> Some(NoShapefileError)]
             ELSE IF Len(missingComponents) > 0
             THEN [isValid |-> FALSE,
                   error |-> Some(ValidationFailedError(missingComponents))]
             ELSE [isValid |-> TRUE, error |-> None]

\* the entry names the archives a user selects are made of
EntryNames ==
    << <<"a", ".shp">>, <<"a", ".shx">>, <<"a", ".dbf">>,
       <<"A", ".SHP">>, <<"a", ".SHX">>, <<"A", ".DBF">>,
       <<"d", ".shp", "/", "a", ".shp">>, <<"d", ".shp", "/", "a", ".shx">>,
       <<"d", ".shp", "/", "a", ".dbf">>,
       <<"d", "/", "a", ".shp", ".shp">>, <<"d", "/", "a", ".shp", ".shx">>,
       <<"d", "/", "a", ".shp", ".dbf">>,
       <<"readme", ".txt">> >>

\* the entries of EntryNames at the positions in S, in order
Listing(S) ==
    [k \in 1..Cardinality(S) |->
        EntryNames[CHOOSE i \in S : Cardinality({h \in S : h < i}) = k - 1]]

\* the files a user may select: an archive with up to MaxEntries entries, or
\* a file JSZip cannot read
SelectableFiles ==
    { [readable |-> TRUE, names |-> Listing(S)] :
          S \in {T \in SUBSET (1..Len(EntryNames)) : Cardinality(T) <= MaxEntries} }
    \cup { [readable |-> FALSE, names |-> << >>] }

-----------------------------------------------------------------------------
(* The server's state *)

\* the locals of a processShapefile run
NoLocals ==
    [filePath |-> None, originalFileName |-> None, tree |-> None,
     inputPath |-> None, kmlFiles |-> << >>, kmlFileName |-> None, kmlContent |-> None,
     individualFiles |-> << >>, error |-> None, allOutput |-> None]

\* an HTTP exchange: the endpoint and the id asked for, the status code, the
\* status of the document the handler found ("none" without one), the error
\* or the content sent, for a status read what the client had read before,
\* for an upload the file of the request (req.file as multer sees it) and for
\* an individual download the name asked for (req.params.filename)
Response(endpoint, id, code, found, error, filename, body) ==
    [endpoint |-> endpoint, id |-> id, code |-> code, found |-> found,
     error |-> error, filename |-> filename, body |-> body, before |-> "none",
     file |-> None, requested |-> None]

\* res.status(code).json({error}): no content is sent
ErrorResponse(endpoint, id, code, found, error) ==
    Response(endpoint, id, code, found, Some(error), None, None)

NoResponse == Response("none", 0, 0, "none", None, None, None)

\* no handleFileSelect call is pending: nothing holds a file or an id
NoClosure == [file |-> None, resultId |-> None]

\* no second call is pending
NoSecond == [awaiting |-> "none", file |-> None, resultId |-> None]

Init ==
    /\ store = [j \in JobIds |-> NoRecord]
    /\ pc = [j \in JobIds |-> "none"]
    /\ loc = [j \in JobIds |-> NoLocals]
    /\ disk = { }
    /\ outFiles = [j \in JobIds |-> << >>]
    /\ now = 1
    /\ nextId = 1
    /\ serverUp = TRUE
    /\ res = NoResponse
    /\ lastRead = [j \in JobIds |-> "none"]
    /\ combinedKml = CombinedHeader
    /\ perSource = << >>
    /\ lastSource = None
    /\ cpc = "loop"
    /\ selectedFile = None
    /\ awaiting = "none"
    /\ validationModal = [isOpen |-> FALSE, message |-> << >>]
    /\ status = "IDLE"
    /\ clientError = None
    /\ clientConversionId = None
    /\ kmlResult = None
    /\ statusData = None
    /\ closure = NoClosure
    /\ second = NoSecond
    /\ posted = 0

-----------------------------------------------------------------------------
(* POST /api/upload *)

\* limits.fileSize: 50 * 1024 * 1024
FileSizeLimit == 52428800

\* the content types and the sizes, in bytes, of the files a request carries
MimeTypes == {"application/zip", "text/plain"}
FileSizes == {1024, FileSizeLimit, FileSizeLimit + 1}

\* req.file as multer sees it
UploadedFile(mimetype, originalname, size) ==
    [mimetype |-> mimetype, originalname |-> originalname, size |-> size]

\* a filter that lets every file through
FileFilterAcceptsAll(mimetype, originalname) == TRUE

\* multer's fileFilter
FileFilter(mimetype, originalname) ==
    mimetype = "application/zip" \/ EndsWith(originalname, ".zip")

\* the request carries no file: 400
UploadNoFile ==
    /\ serverUp
    /\ res' = ErrorResponse("upload", 0, 400, "none", "No file uploaded")
    /\ UNCHANGED <<store, pc, loc, disk, outFiles, now, nextId, serverUp, lastRead, combinedKml, perSource, lastSource, cpc, clientVars>>

\* multer refuses the file (the filter, or the size limit): the handler does
\* not run and nothing is left on disk
UploadRefusedHandled ==
    /\ serverUp
    /\ \E mimetype \in MimeTypes, originalname \in UploadNames, size \in FileSizes :
          /\ ~FileFilter(mimetype, originalname) \/ size > FileSizeLimit
          /\ res' = [ErrorResponse("upload", 0, 500, "none",
                                    IF FileFilter(mimetype, originalname)
                                    THEN "File too large"
                                    ELSE "Only ZIP files are allowed")
                        EXCEPT !.file = Some(UploadedFile(mimetype, originalname, size))]
    /\ UNCHANGED <<store, pc, loc, disk, outFiles, now, nextId, serverUp, lastRead, combineVars>>

UploadRefused == UploadRefusedHandled /\ UNCHANGED clientVars

\* multer stores the file, the handler saves the document, starts
\* processShapefile (which runs up to its first await) and answers
UploadHandledFrom(archives) ==
    /\ serverUp
    /\ nextId \in DOMAIN store
    /\ \E mimetype \in MimeTypes, originalname \in UploadNames, size \in FileSizes,
          archive \in archives, saved \in BOOLEAN :
          LET conversionId == nextId
              filePath == StoredUploadPath(nextId, originalname)
              file == UploadedFile(mimetype, originalname, size)
          IN  /\ FileFilter(mimetype, originalname)
              /\ size <= FileSizeLimit
              /\ disk' = disk \cup {filePath}
              /\ nextId' = nextId + 1
              /\ \/ /\ saved
                    /\ store' = [store EXCEPT ![conversionId] =
                                    NewConversion(conversionId, originalname, now)]
                    /\ now' = now + 1
                    /\ pc' = [pc EXCEPT ![conversionId] = "ensureExtractDir"]
                    /\ loc' = [loc EXCEPT ![conversionId] =
                                  [NoLocals EXCEPT !.filePath = Some(filePath),
                                                   !.originalFileName = Some(originalname),
                                                   !.tree = Some(archive)]]
                    /\ res' = [Response("upload", conversionId, 200, "processing",
                                         None, None, None)
                                  EXCEPT !.file = Some(file)]
                 \/ /\ ~saved
                    /\ res' = [ErrorResponse("upload", 0, 500, "none", "Upload failed")
                                  EXCEPT !.file = Some(file)]
                    /\ UNCHANGED <<store, now, pc, loc>>
    /\ UNCHANGED <<outFiles, serverUp, lastRead, combineVars>>

UploadHandled == UploadHandledFrom(Archives)

Upload == UploadHandled /\ UNCHANGED clientVars

-----------------------------------------------------------------------------
(* processShapefile, one action per await *)

\* an exception inside the try block: control moves to the catch block, which
\* first awaits the update of the document
Throw(j, message) ==
    /\ pc' = [pc EXCEPT ![j] = "updateFailed"]
    /\ loc' = [loc EXCEPT ![j] =
                  [NoLocals EXCEPT !.originalFileName = loc[j].originalFileName,
                                   !.error = Some(message)]]

\* await fs.ensureDir(extractDir), then new AdmZip(filePath) and extractAllTo
EnsureExtractDir(j) ==
    /\ serverUp /\ pc[j] = "ensureExtractDir"
    /\ \/ /\ disk' = disk \cup {ExtractDir(j)}
          /\ pc' = [pc EXCEPT ![j] = "readdirExtractDir"]
          /\ UNCHANGED loc
       \/ /\ disk' = disk \cup {ExtractDir(j)}
          /\ Throw(j, ZipErrorMessage)
       \/ /\ Throw(j, FsErrorMessage)
          /\ UNCHANGED disk
    /\ res' = NoResponse
    /\ UNCHANGED <<store, outFiles, now, nextId, serverUp, lastRead, combinedKml, perSource, lastSource, cpc, clientVars>>

\* await fs.readdir(extractDir) and the search of the input directory, up to
\* await fs.ensureDir(outputDir)
ReaddirExtractDir(j) ==
    /\ serverUp /\ pc[j] = "readdirExtractDir"
    /\ \/ /\ pc' = [pc EXCEPT ![j] = "ensureOutputDir"]
          /\ loc' = [loc EXCEPT ![j].inputPath = Some(InputPath(loc[j].tree[1]))]
       \/ Throw(j, FsErrorMessage)
    /\ res' = NoResponse
    /\ UNCHANGED <<store, disk, outFiles, now, nextId, serverUp, lastRead, combinedKml, perSource, lastSource, cpc, clientVars>>

\* await fs.ensureDir(outputDir), then the PythonShell is started on the
\* input path and the output directory
EnsureOutputDir(j) ==
    /\ serverUp /\ pc[j] = "ensureOutputDir"
    /\ \/ /\ disk' = disk \cup {OutputDir(j)}
          /\ pc' = [pc EXCEPT ![j] = "pythonShell"]
          /\ UNCHANGED loc
       \/ /\ Throw(j, FsErrorMessage)
          /\ UNCHANGED disk
    /\ res' = NoResponse
    /\ UNCHANGED <<store, outFiles, now, nextId, serverUp, lastRead, combinedKml, perSource, lastSource, cpc, clientVars>>

\* a run that lets the output directory decide: a marker fails the run only
\* when the converter wrote no .kml file
PythonShellResolvesOutputsFirst(j, outputs) ==
    /\ serverUp /\ pc[j] = "pythonShell"
    /\ \E written \in OutputListings, captured \in outputs :
          LET allOutput == AllOutput(captured)
          IN  /\ outFiles' = [outFiles EXCEPT ![j] = written]
              /\ IF /\ HasMarker(allOutput)
                    /\ \A i \in 1..Len(written) : ~EndsWith(written[i].fileName, ".kml")
                 THEN /\ pc' = [pc EXCEPT ![j] = "updateFailed"]
                      /\ loc' = [loc EXCEPT ![j] =
                                    [NoLocals EXCEPT
                                        !.originalFileName = loc[j].originalFileName,
                                        !.error = Some(MarkerErrorMessage(allOutput)),
                                        !.allOutput = Some(allOutput)]]
                 ELSE /\ pc' = [pc EXCEPT ![j] = "readdirOutputDir"]
                      /\ loc' = [loc EXCEPT ![j].inputPath = None, ![j].tree = None,
                                            ![j].allOutput = Some(allOutput)]
    /\ res' = NoResponse
    /\ UNCHANGED <<store, disk, now, nextId, serverUp, lastRead, combinedKml, perSource, lastSource, cpc, clientVars>>

\* the converter ran and pyshell.end resolved with one of these captured
\* outputs: the marker scan, then await fs.readdir(outputDir); loc keeps the
\* output scanned until the next step
PythonShellResolvesWith(j, outputs) ==
    /\ serverUp /\ pc[j] = "pythonShell"
    /\ \E written \in OutputListings, captured \in outputs :
          LET allOutput == AllOutput(captured)
          IN  /\ outFiles' = [outFiles EXCEPT ![j] = written]
              /\ IF HasMarker(allOutput)
                 THEN /\ pc' = [pc EXCEPT ![j] = "updateFailed"]
                      /\ loc' = [loc EXCEPT ![j] =
                                    [NoLocals EXCEPT
                                        !.originalFileName = loc[j].originalFileName,
                                        !.error = Some(MarkerErrorMessage(allOutput)),
                                        !.allOutput = Some(allOutput)]]
                 ELSE /\ pc' = [pc EXCEPT ![j] = "readdirOutputDir"]
                      /\ loc' = [loc EXCEPT ![j].inputPath = None, ![j].tree = None,
                                            ![j].allOutput = Some(allOutput)]
    /\ res' = NoResponse
    /\ UNCHANGED <<store, disk, now, nextId, serverUp, lastRead, combinedKml, perSource, lastSource, cpc, clientVars>>

PythonShellResolves(j) == PythonShellResolvesWith(j, CapturedOutputs)

\* pyshell.end reports an error: the inner catch throws the fixed message
PythonShellRejects(j) ==
    /\ serverUp /\ pc[j] = "pythonShell"
    /\ \E written \in OutputListings :
          outFiles' = [outFiles EXCEPT ![j] = written]
    /\ Throw(j, ExecutionFailedMessage)
    /\ res' = NoResponse
    /\ UNCHANGED <<store, disk, now, nextId, serverUp, lastRead, combinedKml, perSource, lastSource, cpc, clientVars>>

\* pyshell emits 'error' (the launch failed): the listener throws inside the
\* emitter, outside every try block, and the uncaught exception ends the process
PythonShellErrorEvent(j) ==
    /\ serverUp /\ pc[j] = "pythonShell"
    /\ serverUp' = FALSE
    /\ res' = NoResponse
    /\ UNCHANGED <<store, pc, loc, disk, outFiles, now, nextId, lastRead, combinedKml, perSource, lastSource, cpc, clientVars>>

\* a filter that lets every file of the directory through
IsAnyFile(file) == Len(file.fileName) > 0

\* file.endsWith('.kml')
IsKml(file) == EndsWith(file.fileName, ".kml")

\* await fs.readdir(outputDir), the filter and the check for no output
ReaddirOutputDir(j) ==
    /\ serverUp /\ pc[j] = "readdirOutputDir"
    /\ \/ LET kmlFiles == SelectSeq(outFiles[j], IsKml)
          IN  IF Len(kmlFiles) = 0
              THEN Throw(j, NoKmlMessage)
              ELSE /\ pc' = [pc EXCEPT ![j] = "readFiles"]
                   /\ loc' = [loc EXCEPT ![j].kmlFiles =
                                 [i \in 1..Len(kmlFiles) |-> kmlFiles[i].fileName],
                                         ![j].allOutput = None]
       \/ Throw(j, FsErrorMessage)
    /\ res' = NoResponse
    /\ UNCHANGED <<store, disk, outFiles, now, nextId, serverUp, lastRead, combinedKml, perSource, lastSource, cpc, clientVars>>

\* the content of a file of the output directory
ReadFile(listing, fileName) ==
    (CHOOSE f \in {listing[i] : i \in 1..Len(listing)} : f.fileName = fileName).content

\* a result that runs the combiner whatever the number of files
KmlResultAlwaysCombines(kmlFiles, contents, originalFileName) ==
    [individualFiles |->
        [i \in 1..Len(kmlFiles) |-> [fileName |-> kmlFiles[i], content |-> contents[i]]],
     kmlContent |-> combineKmlFiles(contents),
     kmlFileName |-> CombinedFileName(originalFileName)]

\* a result that stores no individual file for a single output
KmlResultSingleNotListed(kmlFiles, contents, originalFileName) ==
    [individualFiles |->
        IF Len(kmlFiles) = 1 THEN << >>
        ELSE [i \in 1..Len(kmlFiles) |->
                 [fileName |-> kmlFiles[i], content |-> contents[i]]],
     kmlContent |->
        IF Len(kmlFiles) = 1 THEN contents[1] ELSE combineKmlFiles(contents),
     kmlFileName |->
        IF Len(kmlFiles) = 1 THEN kmlFiles[1] ELSE CombinedFileName(originalFileName)]

\* what is stored for the files read: the single file itself, or the files
\* and their combination under the combined name
KmlResult(kmlFiles, contents, originalFileName) ==
    [individualFiles |->
        [i \in 1..Len(kmlFiles) |-> [fileName |-> kmlFiles[i], content |-> contents[i]]],
     kmlContent |->
        IF Len(kmlFiles) = 1 THEN contents[1] ELSE combineKmlFiles(contents),
     kmlFileName |->
        IF Len(kmlFiles) = 1 THEN kmlFiles[1] ELSE CombinedFileName(originalFileName)]

\* the single file read directly, or every file read and combineKmlFiles
\* applied, up to the await of the update
ReadFiles(j) ==
    /\ serverUp /\ pc[j] = "readFiles"
    /\ \/ LET kmlFiles == loc[j].kmlFiles
              contents == [i \in 1..Len(kmlFiles) |-> ReadFile(outFiles[j], kmlFiles[i])]
              result == KmlResult(kmlFiles, contents, loc[j].originalFileName[1])
          IN  /\ pc' = [pc EXCEPT ![j] = "updateCompleted"]
              /\ loc' = [loc EXCEPT ![j].individualFiles = result.individualFiles,
                                    ![j].kmlContent = Some(result.kmlContent),
                                    ![j].kmlFileName = Some(result.kmlFileName)]
       \/ Throw(j, FsErrorMessage)
    /\ res' = NoResponse
    /\ UNCHANGED <<store, disk, outFiles, now, nextId, serverUp, lastRead, combinedKml, perSource, lastSource, cpc, clientVars>>

\* a success path that removes the extraction directory before its update
UpdateCompletedCleansFirst(j) ==
    /\ serverUp /\ pc[j] = "updateCompleted"
    /\ ExtractDir(j) \in disk
    /\ disk' = disk \ {ExtractDir(j)}
    /\ res' = NoResponse
    /\ UNCHANGED <<store, pc, loc, outFiles, now, nextId, serverUp, lastRead, combinedKml, perSource, lastSource, cpc, clientVars>>

\* await Conversion.findOneAndUpdate(..., {status: 'completed', ...})
UpdateCompleted(j) ==
    /\ serverUp /\ pc[j] = "updateCompleted"
    /\ \/ /\ store' = [store EXCEPT ![j] =
                          CompletedUpdate(store[j], loc[j].kmlFileName[1],
                                          loc[j].kmlContent[1], loc[j].kmlFiles,
                                          loc[j].individualFiles, now)]
          /\ now' = now + 1
          /\ pc' = [pc EXCEPT ![j] = "removeExtractDir"]
          /\ loc' = [loc EXCEPT ![j] =
                        [NoLocals EXCEPT !.filePath = loc[j].filePath,
                                         !.originalFileName = loc[j].originalFileName]]
       \/ /\ Throw(j, DbErrorMessage)
          /\ UNCHANGED <<store, now>>
    /\ res' = NoResponse
    /\ UNCHANGED <<disk, outFiles, nextId, serverUp, lastRead, combinedKml, perSource, lastSource, cpc, clientVars>>

\* fs.remove(path): the path and what is below it are gone
Remove(path) == disk \ {path}

\* await fs.remove(extractDir) of the success path
RemoveExtractDir(j) ==
    /\ serverUp /\ pc[j] = "removeExtractDir"
    /\ \/ /\ disk' = Remove(ExtractDir(j))
          /\ pc' = [pc EXCEPT ![j] = "removeOutputDir"]
          /\ UNCHANGED loc
       \/ /\ Throw(j, RemoveErrorMessage)
          /\ UNCHANGED disk
    /\ res' = NoResponse
    /\ UNCHANGED <<store, outFiles, now, nextId, serverUp, lastRead, combinedKml, perSource, lastSource, cpc, clientVars>>

\* await fs.remove(outputDir) of the success path
RemoveOutputDir(j) ==
    /\ serverUp /\ pc[j] = "removeOutputDir"
    /\ \/ /\ disk' = Remove(OutputDir(j))
          /\ outFiles' = [outFiles EXCEPT ![j] = << >>]
          /\ pc' = [pc EXCEPT ![j] = "removeFilePath"]
          /\ UNCHANGED loc
       \/ /\ Throw(j, RemoveErrorMessage)
          /\ UNCHANGED <<disk, outFiles>>
    /\ res' = NoResponse
    /\ UNCHANGED <<store, now, nextId, serverUp, lastRead, combinedKml, perSource, lastSource, cpc, clientVars>>

\* await fs.remove(filePath) of the success path; the run then returns
RemoveFilePath(j) ==
    /\ serverUp /\ pc[j] = "removeFilePath"
    /\ \/ /\ disk' = Remove(loc[j].filePath[1])
          /\ pc' = [pc EXCEPT ![j] = "returned"]
          /\ loc' = [loc EXCEPT ![j] = NoLocals]
       \/ /\ Throw(j, RemoveErrorMessage)
          /\ UNCHANGED disk
    /\ res' = NoResponse
    /\ UNCHANGED <<store, outFiles, now, nextId, serverUp, lastRead, combinedKml, perSource, lastSource, cpc, clientVars>>

\* the catch block's await Conversion.findOneAndUpdate(..., {status: 'failed',
\* ...}); when it rejects, the promise of the run is rejected and nobody
\* handles it: node warns, or ends the process
UpdateFailed(j) ==
    /\ serverUp /\ pc[j] = "updateFailed"
    /\ \/ /\ store' = [store EXCEPT ![j] = FailedUpdate(store[j], loc[j].error[1], now)]
          /\ now' = now + 1
          /\ pc' = [pc EXCEPT ![j] = "cleanupExtractDir"]
          /\ loc' = [loc EXCEPT ![j].error = None, ![j].allOutput = None]
          /\ UNCHANGED serverUp
       \/ /\ pc' = [pc EXCEPT ![j] = "rejected"]
          /\ loc' = [loc EXCEPT ![j] = NoLocals]
          /\ serverUp' \in BOOLEAN
          /\ UNCHANGED <<store, now>>
    /\ res' = NoResponse
    /\ UNCHANGED <<disk, outFiles, nextId, lastRead, combinedKml, perSource, lastSource, cpc, clientVars>>

\* the catch block's try { remove; remove; remove } catch { log }: a failing
\* removal skips the ones behind it, is logged, and the run ends ("cleanupError")
CleanupExtractDir(j) ==
    /\ serverUp /\ pc[j] = "cleanupExtractDir"
    /\ \/ /\ disk' = Remove(ExtractDir(j))
          /\ pc' = [pc EXCEPT ![j] = "cleanupOutputDir"]
          /\ UNCHANGED loc
       \/ /\ pc' = [pc EXCEPT ![j] = "cleanupError"]
          /\ loc' = [loc EXCEPT ![j] = NoLocals]
          /\ UNCHANGED disk
    /\ res' = NoResponse
    /\ UNCHANGED <<store, outFiles, now, nextId, serverUp, lastRead, combinedKml, perSource, lastSource, cpc, clientVars>>

CleanupOutputDir(j) ==
    /\ serverUp /\ pc[j] = "cleanupOutputDir"
    /\ \/ /\ disk' = Remove(OutputDir(j))
          /\ outFiles' = [outFiles EXCEPT ![j] = << >>]
          /\ pc' = [pc EXCEPT ![j] = "cleanupFilePath"]
          /\ UNCHANGED loc
       \/ /\ pc' = [pc EXCEPT ![j] = "cleanupError"]
          /\ loc' = [loc EXCEPT ![j] = NoLocals]
          /\ UNCHANGED <<disk, outFiles>>
    /\ res' = NoResponse
    /\ UNCHANGED <<store, now, nextId, serverUp, lastRead, combinedKml, perSource, lastSource, cpc, clientVars>>

CleanupFilePath(j) ==
    /\ serverUp /\ pc[j] = "cleanupFilePath"
    /\ \/ /\ disk' = Remove(CleanupUploadPath(loc[j].originalFileName[1]))
          /\ pc' = [pc EXCEPT ![j] = "returned"]
       \/ /\ pc' = [pc EXCEPT ![j] = "cleanupError"]
          /\ UNCHANGED disk
    /\ loc' = [loc EXCEPT ![j] = NoLocals]
    /\ res' = NoResponse
    /\ UNCHANGED <<store, outFiles, now, nextId, serverUp, lastRead, combinedKml, perSource, lastSource, cpc, clientVars>>

-----------------------------------------------------------------------------
(* GET /api/status/:id and the download endpoints *)

\* the names a client may ask for
RequestedNames ==
    { <<"a", ".kml">>, <<"b", ".kml">>, <<"A", ".kml">>, <<"a", ".log">>,
      <<"combined_", "parcels", ".kml">> }

\* the body of the status response
StatusJson(conversion) ==
    [id |-> conversion.id,
     status |-> conversion.status,
     originalFileName |-> conversion.originalFileName,
     kmlFileName |-> conversion.kmlFileName,
     processedFiles |-> conversion.processedFiles,
     individualFiles |-> conversion.individualFiles,
     error |-> conversion.error,
     createdAt |-> conversion.createdAt,
     completedAt |-> conversion.completedAt]

\* if (!conversion) return res.status(404)
NotFound(conversion) == conversion = NoRecord

\* a gate that stops only the jobs still processing
NotCompletedOnlyProcessing(conversion) == conversion.status = "processing"

\* if (conversion.status !== 'completed') return res.status(400)
NotCompleted(conversion) == conversion.status # "completed"

\* the handler of GET /api/status/:id, given the document findOne returned
StatusResponse(id, conversion) ==
    IF NotFound(conversion)
    THEN ErrorResponse("status", id, 404, "none", "Conversion not found")
    ELSE Response("status", id, 200, conversion.status, None, None,
                  Some(StatusJson(conversion)))

\* a download handler that tests the completion gate before the lookup's result
DownloadResponseGateFirst(id, conversion) ==
    IF NotCompleted(conversion)
    THEN ErrorResponse("download", id, 400, conversion.status,
                       "Conversion not completed")
    ELSE IF NotFound(conversion)
    THEN ErrorResponse("download", id, 404, "none", "Conversion not found")
    ELSE Response("download", id, 200, conversion.status, None,
                  conversion.kmlFileName, conversion.kmlContent)

\* the handler of GET /api/download/:id
DownloadResponse(id, conversion) ==
    IF NotFound(conversion)
    THEN ErrorResponse("download", id, 404, "none", "Conversion not found")
    ELSE IF NotCompleted(conversion)
    THEN ErrorResponse("download", id, 400, conversion.status,
                       "Conversion not completed")
    ELSE Response("download", id, 200, conversion.status, None,
                  conversion.kmlFileName, conversion.kmlContent)

\* a lookup that takes the first individual file whatever the name asked for
FindIndividualFileFirst(individualFiles, filename) ==
    IF individualFiles = << >> THEN None ELSE Some(individualFiles[1])

\* conversion.individualFiles?.find(file => file.fileName === filename)
FindIndividualFile(individualFiles, filename) ==
    LET hits == SelectSeq(individualFiles, LAMBDA file : file.fileName = filename)
    IN  IF hits = << >> THEN None ELSE Some(hits[1])

\* the handler of GET /api/download/:id/:filename
DownloadFileResponse(id, filename, conversion) ==
    IF NotFound(conversion)
    THEN ErrorResponse("download-file", id, 404, "none", "Conversion not found")
    ELSE IF NotCompleted(conversion)
    THEN ErrorResponse("download-file", id, 400, conversion.status,
                       "Conversion not completed")
    ELSE LET individualFile == FindIndividualFile(conversion.individualFiles, filename)
         IN  IF individualFile = None
             THEN ErrorResponse("download-file", id, 404, conversion.status,
                                "File not found")
             ELSE Response("download-file", id, 200, conversion.status, None,
                           Some(filename), Some(individualFile[1].content))

\* a bundle of the individual files only
ZipEntriesIndividualOnly(conversion) ==
    [i \in 1..Len(conversion.individualFiles) |->
        [entryName |-> conversion.individualFiles[i].fileName,
         content |-> conversion.individualFiles[i].content]]

\* the zip.addFile calls of GET /api/download-all/:id, in order: the combined
\* file when its content is truthy, then every individual file
ZipEntries(conversion) ==
    (IF conversion.kmlContent # None /\ conversion.kmlContent[1] # << >>
     THEN << [entryName |-> conversion.kmlFileName[1],
              content |-> conversion.kmlContent[1]] >>
     ELSE << >>)
    \o [i \in 1..Len(conversion.individualFiles) |->
           [entryName |-> conversion.individualFiles[i].fileName,
            content |-> conversion.individualFiles[i].content]]

\* originalFileName.replace('.zip', '') + '_all_files.zip'
ZipFileName(originalFileName) ==
    LET i == IndexFrom(originalFileName, ".zip", 1)
    IN  (IF i = 0 THEN originalFileName
         ELSE SubSeq(originalFileName, 1, i - 1)
              \o SubSeq(originalFileName, i + 1, Len(originalFileName)))
        \o <<"_all_files", ".zip">>

\* the handler of GET /api/download-all/:id
DownloadAllResponse(id, conversion) ==
    IF NotFound(conversion)
    THEN ErrorResponse("download-all", id, 404, "none", "Conversion not found")
    ELSE IF NotCompleted(conversion)
    THEN ErrorResponse("download-all", id, 400, conversion.status,
                       "Conversion not completed")
    ELSE Response("download-all", id, 200, conversion.status, None,
                  Some(ZipFileName(conversion.originalFileName)),
                  Some(ZipEntries(conversion)))

\* a status handler that stamps the document it reads
GetStatusStamps(id) ==
    /\ serverUp
    /\ res' = [StatusResponse(id, store[id]) EXCEPT !.before = lastRead[id]]
    /\ lastRead' = [lastRead EXCEPT ![id] = store[id].status]
    /\ store' = IF NotFound(store[id]) THEN store
                ELSE [store EXCEPT ![id].createdAt = now + 1]
    /\ UNCHANGED <<pc, loc, disk, outFiles, now, nextId, serverUp, combineVars, clientVars>>

\* a status request is answered from the document as it is now; `before` is
\* the status the client had last read for this id
GetStatus(id) ==
    /\ serverUp
    /\ res' = [StatusResponse(id, store[id]) EXCEPT !.before = lastRead[id]]
    /\ lastRead' = [lastRead EXCEPT ![id] = store[id].status]
    /\ UNCHANGED <<store, pc, loc, disk, outFiles, now, nextId, serverUp, combineVars, clientVars>>

GetDownload(id) ==
    /\ serverUp
    /\ res' = DownloadResponse(id, store[id])
    /\ UNCHANGED <<store, pc, loc, disk, outFiles, now, nextId, serverUp, lastRead,
                   combineVars, clientVars>>

GetDownloadFile(id) ==
    /\ serverUp
    /\ \E filename \in RequestedNames :
          res' = [DownloadFileResponse(id, filename, store[id])
                     EXCEPT !.requested = Some(filename)]
    /\ UNCHANGED <<store, pc, loc, disk, outFiles, now, nextId, serverUp, lastRead,
                   combineVars, clientVars>>

GetDownloadAll(id) ==
    /\ serverUp
    /\ res' = DownloadAllResponse(id, store[id])
    /\ UNCHANGED <<store, pc, loc, disk, outFiles, now, nextId, serverUp, lastRead,
                   combineVars, clientVars>>

\* findOne rejects: the handler's catch answers 500
GetFails(id) ==
    /\ serverUp
    /\ \E endpoint \in {"status", "download", "download-file", "download-all"} :
          res' = ErrorResponse(endpoint, id, 500, "none",
                               IF endpoint = "status" THEN "Status check failed"
                               ELSE "Download failed")
    /\ UNCHANGED <<store, pc, loc, disk, outFiles, now, nextId, serverUp, lastRead,
                   combineVars, clientVars>>

\* one step of the processShapefile run of job j
RunStep(j) ==
    \/ EnsureExtractDir(j)
    \/ ReaddirExtractDir(j)
    \/ EnsureOutputDir(j)
    \/ PythonShellResolves(j)
    \/ PythonShellRejects(j)
    \/ PythonShellErrorEvent(j)
    \/ ReaddirOutputDir(j)
    \/ ReadFiles(j)
    \/ UpdateCompleted(j)
    \/ RemoveExtractDir(j)
    \/ RemoveOutputDir(j)
    \/ RemoveFilePath(j)
    \/ UpdateFailed(j)
    \/ CleanupExtractDir(j)
    \/ CleanupOutputDir(j)
    \/ CleanupFilePath(j)

Next ==
    \/ UploadNoFile
    \/ UploadRefused
    \/ Upload
    \/ \E j \in JobIds : RunStep(j)
    \/ \E id \in JobIds : GetStatus(id)
    \/ \E id \in JobIds : GetDownload(id)
    \/ \E id \in JobIds : GetDownloadFile(id)
    \/ \E id \in JobIds : GetDownloadAll(id)
    \/ \E id \in JobIds : GetFails(id)

Spec == Init /\ [][Next]_vars

\* the event loop runs every continuation that is ready, and the converter
\* exits: every run keeps taking steps while it has one
FairSpec == Spec /\ \A j \in JobIds : WF_vars(RunStep(j))

-----------------------------------------------------------------------------
(* Two uploads at once: the runs of several jobs interleave at every await *)

\* the number of uploads accepted in one behaviour of concurrent runs
MaxConcurrent == 2

ConcurrentIds == 1..MaxConcurrent

\* the state after construction, with room for MaxConcurrent documents
ConcurrentInit ==
    /\ store = [j \in ConcurrentIds |-> NoRecord]
    /\ pc = [j \in ConcurrentIds |-> "none"]
    /\ loc = [j \in ConcurrentIds |-> NoLocals]
    /\ disk = { }
    /\ outFiles = [j \in ConcurrentIds |-> << >>]
    /\ now = 1
    /\ nextId = 1
    /\ serverUp = TRUE
    /\ res = NoResponse
    /\ lastRead = [j \in ConcurrentIds |-> "none"]
    /\ combinedKml = CombinedHeader
    /\ perSource = << >>
    /\ lastSource = None
    /\ cpc = "loop"
    /\ selectedFile = None
    /\ awaiting = "none"
    /\ validationModal = [isOpen |-> FALSE, message |-> << >>]
    /\ status = "IDLE"
    /\ clientError = None
    /\ clientConversionId = None
    /\ kmlResult = None
    /\ statusData = None
    /\ closure = NoClosure
    /\ second = NoSecond
    /\ posted = 0

\* the paths the step a run stands at creates, reads or deletes
Accessed(j) ==
    CASE pc[j] = "ensureExtractDir" -> {ExtractDir(j), loc[j].filePath[1]}
      [] pc[j] = "readdirExtractDir" -> {ExtractDir(j)}
      [] pc[j] = "ensureOutputDir" -> {OutputDir(j)}
      [] pc[j] = "pythonShell" -> {ExtractDir(j), OutputDir(j)}
      [] pc[j] = "readdirOutputDir" -> {OutputDir(j)}
      [] pc[j] = "readFiles" -> {OutputDir(j)}
      [] pc[j] = "removeExtractDir" -> {ExtractDir(j)}
      [] pc[j] = "removeOutputDir" -> {OutputDir(j)}
      [] pc[j] = "removeFilePath" -> {loc[j].filePath[1]}
      [] pc[j] = "cleanupExtractDir" -> {ExtractDir(j)}
      [] pc[j] = "cleanupOutputDir" -> {OutputDir(j)}
      [] pc[j] = "cleanupFilePath" -> {CleanupUploadPath(loc[j].originalFileName[1])}
      [] OTHER -> { }

ConcurrentNext ==
    \/ Upload
    \/ \E j \in ConcurrentIds : RunStep(j)

ConcurrentSpec == ConcurrentInit /\ [][ConcurrentNext]_vars

-----------------------------------------------------------------------------
(* The marker scan on its own: a run whose converter prints any short output *)

\* the most lines the converter prints
MaxLines == 4

\* the lines the converter prints
ScanLines ==
    { <<ValidationMarker>>, <<NoValidMarker>>, <<FilesFoundHeader>>,
      <<Bullet, "a.shp">>, <<Blank, Bullet, "b.shp", Blank>>, <<Blank>>, <<"Converted">> }

ScanOutputs == { [stdout |-> out, stderr |-> << >>] : out \in Strings(ScanLines, MaxLines) }

PythonShellResolvesAny(j) == PythonShellResolvesWith(j, ScanOutputs)

MarkerStep(j) ==
    \/ EnsureExtractDir(j)
    \/ ReaddirExtractDir(j)
    \/ EnsureOutputDir(j)
    \/ PythonShellResolvesAny(j)
    \/ UpdateFailed(j)

MarkerNext ==
    \/ Upload
    \/ \E j \in JobIds : MarkerStep(j)

MarkerSpec == Init /\ [][MarkerNext]_vars

-----------------------------------------------------------------------------
(* The client (frontend/src/App.jsx): from the selection of a file to the
   answer of its upload *)

\* the most POST /api/upload requests a client sends in one behaviour
MaxPosted == 2

\* handleFileSelect up to its await: the dropzone is rendered only while the
\* status is 'IDLE', and the open validation modal covers it
HandleFileSelectFrom(files) ==
    /\ status = "IDLE" /\ awaiting = "none" /\ ~validationModal.isOpen
    /\ posted < MaxPosted
    /\ \E file \in files :
          /\ selectedFile' = Some(file)
          /\ closure' = [file |-> Some(file), resultId |-> None]
    /\ awaiting' = "validateZipContents"
    /\ UNCHANGED <<validationModal, status, clientError, clientConversionId, posted,
                   kmlResult, statusData, second, serverVars, combineVars>>

HandleFileSelect == HandleFileSelectFrom(SelectableFiles)

\* the first lines of processFile, up to its await of fetch('/api/upload')
ProcessFile ==
    /\ status' = "PROCESSING"
    /\ clientError' = None
    /\ posted' = posted + 1
    /\ awaiting' = "fetchUpload"

\* a handleFileSelect that shows the message and processes the file all the same
ValidationResolvesAndProcesses ==
    /\ awaiting = "validateZipContents"
    /\ LET validation == validateZipContents(closure.file[1])
       IN  /\ validationModal' =
                  IF validation.isValid THEN validationModal
                  ELSE [isOpen |-> TRUE, message |-> validation.error[1]]
           /\ ProcessFile
    /\ UNCHANGED <<selectedFile, clientConversionId, kmlResult, statusData, closure, second,
                   serverVars, combineVars>>

\* validateZipContents resolves: the modal is opened and handleFileSelect
\* returns, or processFile is called
ValidationResolves ==
    /\ awaiting = "validateZipContents"
    /\ LET validation == validateZipContents(closure.file[1])
       IN  IF ~validation.isValid
           THEN /\ validationModal' = [isOpen |-> TRUE, message |-> validation.error[1]]
                /\ awaiting' = "none"
                /\ closure' = NoClosure
                /\ UNCHANGED <<status, clientError, posted>>
           ELSE /\ ProcessFile
                /\ UNCHANGED <<validationModal, closure>>
    /\ UNCHANGED <<selectedFile, clientConversionId, kmlResult, statusData, second, serverVars,
                   combineVars>>

\* onClose of the validation modal
CloseValidationModal ==
    /\ validationModal.isOpen
    /\ validationModal' = [isOpen |-> FALSE, message |-> << >>]
    /\ UNCHANGED <<selectedFile, awaiting, status, clientError, clientConversionId, posted,
                   kmlResult, statusData, closure, second, serverVars, combineVars>>

\* the server handles the POST the client sent
ServeUpload ==
    /\ awaiting = "fetchUpload"
    /\ res.endpoint # "upload"
    /\ Upload \/ UploadRefused

\* the text of a response that is not ok, which processFile throws as an Error
ResponseText(response) == <<"{\"error\":\"", response.error[1], "\"}">>

\* fetch('/api/upload') resolves: the id is kept and the first poll is
\* scheduled, or the body of the error response becomes the error shown
FetchUploadResolves ==
    /\ awaiting = "fetchUpload"
    /\ res.endpoint = "upload"
    /\ IF res.code = 200
       THEN /\ clientConversionId' = Some(res.id)
            /\ closure' = [closure EXCEPT !.resultId = Some(res.id)]
            /\ awaiting' = "pollStatus"
            /\ UNCHANGED <<status, clientError>>
       ELSE /\ clientError' = Some(ResponseText(res))
            /\ status' = "ERROR"
            /\ awaiting' = "none"
            /\ closure' = NoClosure
            /\ UNCHANGED clientConversionId
    /\ res' = NoResponse
    /\ UNCHANGED <<selectedFile, validationModal, posted, kmlResult, statusData, second, store, pc, loc, disk,
                   outFiles, now, nextId, serverUp, lastRead, combineVars>>

\* handleReset, behind the button shown with an error and the one of the
\* result panel
HandleReset ==
    /\ status = "ERROR" \/ (status = "SUCCESS" /\ kmlResult # None)
    /\ status' = "IDLE"
    /\ kmlResult' = None
    /\ clientError' = None
    /\ selectedFile' = None
    /\ clientConversionId' = None
    /\ validationModal' = [isOpen |-> FALSE, message |-> << >>]
    /\ UNCHANGED <<awaiting, posted, statusData, closure, second, serverVars, combineVars>>

ClientNext ==
    \/ HandleFileSelect
    \/ ValidationResolves
    \/ CloseValidationModal
    \/ ServeUpload
    \/ FetchUploadResolves
    \/ HandleReset

ClientSpec == Init /\ [][ClientNext]_vars

-----------------------------------------------------------------------------
(* The client's polling (pollStatus of processFile) against the running server *)

\* err.message of the errors pollStatus throws and of a fetch that rejects
StatusCheckFailed == << <<"Status check failed">> >>
DownloadFailed == << <<"Download failed">> >>
ConversionFailed == << <<"Conversion failed">> >>
FailedToFetch == << <<"Failed to fetch">> >>

\* name.replace(/\.zip$/, '.kml')
ZipSuffixToKml(name) ==
    IF EndsWith(name, ".zip")
    THEN SubSeq(name, 1, Len(name) - 1) \o <<".kml">>
    ELSE name

\* a client that takes the first status response as the end of the job
AfterStatusStopsPolling(response) ==
    IF response.code # 200
    THEN [awaiting |-> "none", status |-> "ERROR",
          clientError |-> Some(StatusCheckFailed), statusData |-> None]
    ELSE IF response.body[1].status = "completed"
    THEN [awaiting |-> "fetchDownload", status |-> status,
          clientError |-> clientError, statusData |-> response.body]
    ELSE [awaiting |-> "none", status |-> "ERROR",
          clientError |->
              IF response.body[1].error = None \/ response.body[1].error[1] = << >>
              THEN Some(ConversionFailed)
              ELSE response.body[1].error,
          statusData |-> None]

\* pollStatus behind its first await: what the client does with the response
\* to its status request
AfterStatus(response) ==
    IF response.code # 200
    THEN [awaiting |-> "none", status |-> "ERROR",
          clientError |-> Some(StatusCheckFailed), statusData |-> None]
    ELSE IF response.body[1].status = "completed"
    THEN [awaiting |-> "fetchDownload", status |-> status,
          clientError |-> clientError, statusData |-> response.body]
    ELSE IF response.body[1].status = "failed"
    THEN [awaiting |-> "none", status |-> "ERROR",
          clientError |->
              IF response.body[1].error = None \/ response.body[1].error[1] = << >>
              THEN Some(ConversionFailed)
              ELSE response.body[1].error,
          statusData |-> None]
    ELSE [awaiting |-> "pollStatus", status |-> status,
          clientError |-> clientError, statusData |-> None]

\* the timer of setTimeout(pollStatus, ...) fires: pollStatus runs up to its
\* await of fetch(`/api/status/${result.id}`)
PollStatus ==
    /\ awaiting = "pollStatus"
    /\ awaiting' = "fetchStatus"
    /\ UNCHANGED <<selectedFile, validationModal, status, clientError, clientConversionId,
                   posted, kmlResult, statusData, closure, second, serverVars, combineVars>>

\* the status request is answered, from the document as it is now or with 500
\* when findOne rejects, and pollStatus goes on behind its await
FetchStatusResolves ==
    /\ awaiting = "fetchStatus"
    /\ serverUp
    /\ LET id == closure.resultId[1]
       IN  \/ /\ res' = [StatusResponse(id, store[id]) EXCEPT !.before = lastRead[id]]
              /\ lastRead' = [lastRead EXCEPT ![id] = store[id].status]
           \/ /\ res' = ErrorResponse("status", id, 500, "none", "Status check failed")
              /\ UNCHANGED lastRead
    /\ awaiting' = AfterStatus(res').awaiting
    /\ status' = AfterStatus(res').status
    /\ clientError' = AfterStatus(res').clientError
    /\ statusData' = AfterStatus(res').statusData
    /\ closure' = IF AfterStatus(res').awaiting = "none" THEN NoClosure ELSE closure
    /\ UNCHANGED <<selectedFile, validationModal, clientConversionId, posted, kmlResult, second,
                   store, pc, loc, disk, outFiles, now, nextId, serverUp, combineVars>>

\* the request for the combined file is answered and pollStatus goes on behind
\* its second await: the result is kept and shown, or the download has failed
FetchDownloadResolves ==
    /\ awaiting = "fetchDownload"
    /\ serverUp
    /\ LET id == closure.resultId[1]
       IN  \/ res' = DownloadResponse(id, store[id])
           \/ res' = ErrorResponse("download", id, 500, "none", "Download failed")
    /\ awaiting' = "none"
    /\ statusData' = None
    /\ IF res'.code = 200
       THEN /\ kmlResult' =
                  Some([fileName |->
                            IF statusData[1].kmlFileName = None
                               \/ statusData[1].kmlFileName[1] = << >>
                            THEN ZipSuffixToKml(statusData[1].originalFileName)
                            ELSE statusData[1].kmlFileName[1],
                        content |-> res'.body[1],
                        processedFiles |-> statusData[1].processedFiles,
                        conversionId |-> closure.resultId[1]])
            /\ status' = "SUCCESS"
            /\ UNCHANGED clientError
       ELSE /\ clientError' = Some(DownloadFailed)
            /\ status' = "ERROR"
            /\ UNCHANGED kmlResult
    /\ closure' = NoClosure
    /\ UNCHANGED <<selectedFile, validationModal, clientConversionId, posted, second,
                   store, pc, loc, disk, outFiles, now, nextId, serverUp, lastRead,
                   combineVars>>

\* the node process has ended: the pending fetch rejects and the catch block
\* shows err.message
FetchRejects ==
    /\ awaiting \in {"fetchUpload", "fetchStatus", "fetchDownload"}
    /\ ~serverUp
    /\ awaiting' = "none"
    /\ status' = "ERROR"
    /\ clientError' = Some(FailedToFetch)
    /\ statusData' = None
    /\ closure' = NoClosure
    /\ UNCHANGED <<selectedFile, validationModal, clientConversionId, posted, kmlResult, second,
                   serverVars, combineVars>>

\* the files the polling client selects: a complete shapefile, and a file
\* JSZip cannot read
PollFiles ==
    { [readable |-> TRUE, names |-> Listing({1, 2, 3})],
      [readable |-> FALSE, names |-> << >>] }

HandlePollFileSelect == HandleFileSelectFrom(PollFiles)

\* the steps of the client while it polls
PollStep ==
    \/ PollStatus
    \/ FetchStatusResolves
    \/ FetchDownloadResolves
    \/ FetchRejects

PollNext ==
    \/ HandlePollFileSelect
    \/ ValidationResolves
    \/ CloseValidationModal
    \/ ServeUpload
    \/ FetchUploadResolves
    \/ HandleReset
    \/ \E j \in JobIds : RunStep(j)
    \/ PollStep

PollSpec == Init /\ [][PollNext]_vars

\* the browser fires every timer and settles every fetch
FairPollSpec == PollSpec /\ WF_vars(PollStep)

-----------------------------------------------------------------------------
(* Two handleFileSelect calls at once: the dropzone stays rendered while the
   first call awaits validateZipContents, since the status is still 'IDLE' *)

\* handleFileSelect is called again while a call is pending
HandleSecondFileSelect ==
    /\ status = "IDLE" /\ ~validationModal.isOpen
    /\ awaiting # "none" /\ second.awaiting = "none"
    /\ posted < MaxPosted
    /\ \E file \in PollFiles :
          /\ selectedFile' = Some(file)
          /\ second' = [awaiting |-> "validateZipContents", file |-> Some(file),
                        resultId |-> None]
    /\ UNCHANGED <<awaiting, validationModal, status, clientError, clientConversionId, posted,
                   kmlResult, statusData, closure, serverVars, combineVars>>

\* validateZipContents of the second call resolves
SecondValidationResolves ==
    /\ second.awaiting = "validateZipContents"
    /\ LET validation == validateZipContents(second.file[1])
       IN  IF ~validation.isValid
           THEN /\ validationModal' = [isOpen |-> TRUE, message |-> validation.error[1]]
                /\ second' = NoSecond
                /\ UNCHANGED <<status, clientError, posted>>
           ELSE /\ status' = "PROCESSING"
                /\ clientError' = None
                /\ posted' = posted + 1
                /\ second' = [second EXCEPT !.awaiting = "fetchUpload"]
                /\ UNCHANGED validationModal
    /\ UNCHANGED <<selectedFile, awaiting, clientConversionId, kmlResult, statusData, closure,
                   serverVars, combineVars>>

\* the POST of the first call is handled and its fetch resolves
UploadAnsweredFrom(archives) ==
    /\ awaiting = "fetchUpload"
    /\ UploadHandledFrom(archives) \/ UploadRefusedHandled
    /\ IF res'.code = 200
       THEN /\ clientConversionId' = Some(res'.id)
            /\ closure' = [closure EXCEPT !.resultId = Some(res'.id)]
            /\ awaiting' = "pollStatus"
            /\ UNCHANGED <<status, clientError>>
       ELSE /\ clientError' = Some(ResponseText(res'))
            /\ status' = "ERROR"
            /\ awaiting' = "none"
            /\ closure' = NoClosure
            /\ UNCHANGED clientConversionId
    /\ UNCHANGED <<selectedFile, validationModal, posted, kmlResult, statusData, second>>

UploadAnswered == UploadAnsweredFrom(Archives)

\* the POST of the second call is handled and its fetch resolves
SecondUploadAnswered ==
    /\ second.awaiting = "fetchUpload"
    /\ UploadHandled \/ UploadRefusedHandled
    /\ IF res'.code = 200
       THEN /\ clientConversionId' = Some(res'.id)
            /\ second' = [second EXCEPT !.awaiting = "pollStatus",
                                        !.resultId = Some(res'.id)]
            /\ UNCHANGED <<status, clientError>>
       ELSE /\ clientError' = Some(ResponseText(res'))
            /\ status' = "ERROR"
            /\ second' = NoSecond
            /\ UNCHANGED clientConversionId
    /\ UNCHANGED <<selectedFile, awaiting, validationModal, posted, kmlResult, statusData,
                   closure>>

\* the timer of the second call fires
SecondPollStatus ==
    /\ second.awaiting = "pollStatus"
    /\ second' = [second EXCEPT !.awaiting = "fetchStatus"]
    /\ UNCHANGED <<selectedFile, awaiting, validationModal, status, clientError,
                   clientConversionId, posted, kmlResult, statusData, closure, serverVars,
                   combineVars>>

\* the status request of the second call is answered and its pollStatus goes on
SecondFetchStatusResolves ==
    /\ second.awaiting = "fetchStatus"
    /\ serverUp
    /\ LET id == second.resultId[1]
       IN  \/ /\ res' = [StatusResponse(id, store[id]) EXCEPT !.before = lastRead[id]]
              /\ lastRead' = [lastRead EXCEPT ![id] = store[id].status]
           \/ /\ res' = ErrorResponse("status", id, 500, "none", "Status check failed")
              /\ UNCHANGED lastRead
    /\ second' = IF AfterStatus(res').awaiting = "none" THEN NoSecond
                 ELSE [second EXCEPT !.awaiting = AfterStatus(res').awaiting]
    /\ status' = AfterStatus(res').status
    /\ clientError' = AfterStatus(res').clientError
    /\ UNCHANGED <<selectedFile, awaiting, validationModal, clientConversionId, posted,
                   kmlResult, statusData, closure, store, pc, loc, disk, outFiles, now, nextId,
                   serverUp, combineVars>>

\* the client with two calls, before the converter of either job has ended
RaceNext ==
    \/ HandlePollFileSelect
    \/ HandleSecondFileSelect
    \/ ValidationResolves
    \/ SecondValidationResolves
    \/ CloseValidationModal
    \/ UploadAnswered
    \/ SecondUploadAnswered
    \/ PollStatus
    \/ SecondPollStatus
    \/ FetchStatusResolves
    \/ SecondFetchStatusResolves
    \/ HandleReset

RaceSpec == ConcurrentInit /\ [][RaceNext]_vars

-----------------------------------------------------------------------------
(* From the archive the client has validated to the input directory the
   server hands to the converter *)

\* the entry names of the archives: files at the root, in a directory and in
\* a directory of a directory, in lower and in upper case
AgreeEntryNames ==
    << <<"a", ".shp">>, <<"a", ".shx">>, <<"a", ".dbf">>,
       <<"A", ".SHP">>, <<"A", ".SHX">>, <<"A", ".DBF">>,
       <<"d", "/", "a", ".shp">>, <<"d", "/", "a", ".shx">>, <<"d", "/", "a", ".dbf">>,
       <<"d", "/", "e", "/", "a", ".shp">>, <<"d", "/", "e", "/", "a", ".shx">>,
       <<"d", "/", "e", "/", "a", ".dbf">>,
       <<"readme", ".txt">> >>

\* the archives a user may select: the entries of AgreeEntryNames at up to
\* MaxEntries positions, in order
AgreeFiles ==
    LET listing(S) ==
            [k \in 1..Cardinality(S) |->
                AgreeEntryNames[CHOOSE i \in S : Cardinality({h \in S : h < i}) = k - 1]]
    IN  { [readable |-> TRUE, names |-> listing(S)] :
              S \in {T \in SUBSET (1..Len(AgreeEntryNames)) : Cardinality(T) <= MaxEntries} }

\* the components of an entry name between its '/'
RECURSIVE Components(_)
Components(name) ==
    LET i == IndexFrom(name, "/", 1)
    IN  IF i = 0 THEN <<name>>
        ELSE <<SubSeq(name, 1, i - 1)>> \o Components(SubSeq(name, i + 1, Len(name)))

\* zip.extractAllTo(extractDir, true): the files at the root, and the
\* directories at the root with their entries (files and directories), in
\* the order in which the archive first names them
ExtractAllTo(names) ==
    LET comps == [i \in 1..Len(names) |-> Components(names[i])]
        nested == {i \in 1..Len(names) : Len(comps[i]) > 1}
        firsts == {i \in nested : \A h \in nested : h < i => comps[h][1] # comps[i][1]}
        nth(n) == CHOOSE i \in firsts : Cardinality({h \in firsts : h < i}) = n - 1
    IN  [files |-> {comps[i][1] : i \in (1..Len(names)) \ nested},
         dirs |-> [n \in 1..Cardinality(firsts) |->
                      [name |-> comps[nth(n)][1],
                       files |-> {comps[k][2] : k \in {h \in nested :
                                                          comps[h][1] = comps[nth(n)][1]}}]]]

HandleAgreeFileSelect == HandleFileSelectFrom(AgreeFiles)

\* the archive that was validated is uploaded, and the fetch resolves
UploadSelected == UploadAnsweredFrom({ExtractAllTo(closure.file[1].names)})

AgreeNext ==
    \/ HandleAgreeFileSelect
    \/ ValidationResolves
    \/ CloseValidationModal
    \/ UploadSelected
    \/ \E j \in JobIds : EnsureExtractDir(j)
    \/ \E j \in JobIds : ReaddirExtractDir(j)
    \/ HandleReset

AgreeSpec == Init /\ [][AgreeNext]_vars

-----------------------------------------------------------------------------
(* combineKmlFiles on its own: one action per iteration of its for loop *)

\* the tokens of the source documents: the Placemark tags and other text
CombineTokens == {PO, PC, "<name>"}

\* one iteration: a source is read and its fragments are appended
CombineFileFrom(tokens) ==
    /\ cpc = "loop"
    /\ Len(perSource) < MaxFiles
    /\ \E kmlContent \in Strings(tokens, MaxDocLen) :
          /\ combinedKml' = AppendPlacemarks(combinedKml, ExtractPlacemarks(kmlContent))
          /\ perSource' = Append(perSource, ExtractPlacemarks(kmlContent))
          /\ lastSource' = Some(kmlContent)
    /\ UNCHANGED <<cpc, serverVars, clientVars>>

CombineFile == CombineFileFrom(CombineTokens)

\* behind the loop the closing tags are appended and the document returned
CombineReturn ==
    /\ cpc = "loop"
    /\ combinedKml' = combinedKml \o CombinedFooter
    /\ cpc' = "done"
    /\ UNCHANGED <<perSource, lastSource, serverVars, clientVars>>

CombineNext == CombineFile \/ CombineReturn

CombineSpec == Init /\ [][CombineNext]_vars

-----------------------------------------------------------------------------
(* One iteration of combineKmlFiles over sources with Document and kml tags *)

\* the tokens of a source: the Placemark, Document and kml tags and other text
TierTokens == {PO, PC, DO, DC, KO, KC, "<name>"}

\* the first iteration of the loop
CombineFirstFile == perSource = << >> /\ CombineFileFrom(TierTokens)

TierNext == CombineFirstFile \/ CombineReturn

TierSpec == Init /\ [][TierNext]_vars

-----------------------------------------------------------------------------
(* Properties *)

Terminal == {"completed", "failed"}

\* c1 + ... + cN for the fragment lists of N sources
RECURSIVE SumOfCounts(_)
SumOfCounts(lists) ==
    IF lists = << >> THEN 0 ELSE Len(Head(lists)) + SumOfCounts(Tail(lists))

Downloads == {"download", "download-file", "download-all"}

\* C1: the status of a job changes once, from processing to completed or to
\* failed: a status that is completed or failed is never changed by any step
C1_TerminalStatusNeverChanges ==
    [][\A j \in JobIds :
          store[j].status \in Terminal => store'[j].status = store[j].status]_vars

\* C2: a removal that fails after the terminal status was persisted is only
\* logged: no step of a run that is handling a removal failure changes the
\* job's document
C2_RemovalFailureLeavesRecord ==
    [][\A j \in JobIds :
          (pc[j] = "updateFailed" /\ loc[j].error = Some(RemoveErrorMessage))
              => store'[j] = store[j]]_vars

\* C3: every job that is processing is eventually completed or failed
C3_EveryJobEventuallyTerminal ==
    \A j \in JobIds :
        (store[j].status = "processing") ~> (store[j].status \in Terminal)

\* C4: once a status read for an id has returned completed or failed, no later
\* status read for that id returns processing
C4_StatusReadsMonotonic ==
    (res.endpoint = "status" /\ res.before \in Terminal)
        => (res.code = 200 /\ res.body[1].status \in Terminal)

\* C4 witness: a status read answered after an earlier read of the same id had
\* returned a terminal status
C4_Witness ==
    /\ res.endpoint = "status" /\ res.code = 200
    /\ res.before \in Terminal
    /\ res.body[1].status \in Terminal
    /\ pc[res.id] \in {"removeOutputDir", "cleanupOutputDir"}

\* C5: a processing job has neither combined content nor error; a completed
\* job has the content, the output name and the source outputs and no error; a
\* failed job has the error and none of the outputs
C5_ExactlyOneOfContentAndError ==
    \A j \in JobIds :
        store[j] # NoRecord =>
            /\ store[j].status = "processing" =>
                  store[j].kmlContent = None /\ store[j].error = None
            /\ store[j].status = "completed" =>
                  /\ store[j].kmlContent # None /\ store[j].kmlFileName # None
                  /\ store[j].individualFiles # << >>
                  /\ store[j].error = None
            /\ store[j].status = "failed" =>
                  /\ store[j].error # None
                  /\ store[j].kmlContent = None /\ store[j].kmlFileName = None
                  /\ store[j].individualFiles = << >>

\* C6: a download of a job that exists and is not completed is answered 400
\* 'Conversion not completed' and carries no content, on each of the three
\* download endpoints
C6_DownloadBeforeCompletionNotReady ==
    (res.endpoint \in Downloads /\ res.found \in {"processing", "failed"})
        => /\ res.code = 400
           /\ res.error = Some("Conversion not completed")
           /\ res.body = None /\ res.filename = None

\* C6 witness: a download refused while the converter's files lie in the
\* output directory and the job is still processing
C6_Witness ==
    /\ res.endpoint \in Downloads /\ res.found = "processing" /\ res.code = 400
    /\ pc[res.id] = "readFiles"
    /\ Len(outFiles[res.id]) >= 2

\* C7: when a run has ended, its extraction directory, its output directory
\* and the uploaded file as multer stored it are gone
C7_WorkspaceReclaimed ==
    \A j \in JobIds :
        pc[j] = "returned" =>
            /\ ExtractDir(j) \notin disk
            /\ OutputDir(j) \notin disk
            /\ StoredUploadPath(j, store[j].originalFileName) \notin disk

\* C8: the document is written once after its creation: once completedAt is
\* set, no step changes the document
C8_SingleWrite ==
    [][\A j \in JobIds :
          (store[j] # NoRecord /\ store[j].completedAt # None)
              => store'[j] = store[j]]_vars

\* C9: the Placemark fragments of the combined document are the fragments
\* extracted from the sources, as many as the per-source counts add up to and
\* in source order
C9_CombinedFragmentsInSourceOrder ==
    cpc = "done" =>
        /\ Len(MatchPlacemarks(combinedKml)) = SumOfCounts(perSource)
        /\ MatchPlacemarks(combinedKml) = Flatten(perSource)

\* C9 witness: two sources were combined, the first with two fragments and the
\* second with one fragment that differs from them
C9_Witness ==
    /\ cpc = "done" /\ Len(perSource) = 2
    /\ Len(perSource[1]) = 2 /\ Len(perSource[2]) = 1
    /\ perSource[1][1] # perSource[1][2]
    /\ perSource[2][1] # perSource[1][1] /\ perSource[2][1] # perSource[1][2]

\* C10: a completed job with one source output is named like that output and
\* holds its content
C10_SingleOutputIsCombined ==
    \A j \in JobIds :
        (store[j].status = "completed" /\ Len(store[j].individualFiles) = 1)
            => /\ store[j].kmlFileName = Some(store[j].individualFiles[1].fileName)
               /\ store[j].kmlContent = Some(store[j].individualFiles[1].content)

\* C10 witness: a job completed from a single output file
C10_Witness ==
    \E j \in JobIds :
        /\ store[j].status = "completed" /\ Len(store[j].individualFiles) = 1
        /\ store[j].processedFiles = << <<"a", ".kml">> >>

\* C11: a completed job has at least one individual file, one per .kml file
\* of the output directory: as many as processedFiles names, and while the
\* output directory still exists exactly its .kml files, in listing order
C11_CompletedHasSourceOutputs ==
    \A j \in JobIds :
        store[j].status = "completed" =>
            /\ Len(store[j].individualFiles) >= 1
            /\ store[j].processedFiles =
                   [i \in 1..Len(store[j].individualFiles) |->
                       store[j].individualFiles[i].fileName]
            /\ OutputDir(j) \in disk =>
                   store[j].individualFiles = SelectSeq(outFiles[j], IsKml)

\* a completed job whose output directory held two .kml files and a log
C11_Witness ==
    \E j \in JobIds :
        /\ store[j].status = "completed"
        /\ pc[j] = "removeOutputDir"
        /\ Len(outFiles[j]) = 3
        /\ Len(store[j].individualFiles) = 2

-----------------------------------------------------------------------------
(* Properties of the client *)

\* the client has the answer of validateZipContents for the selected file
Validated ==
    /\ selectedFile # None
    /\ awaiting # "validateZipContents"
    /\ selectedFile[1].readable

\* an entry that ends in .shp, compared without regard to letter case
IsShpEntry(name) == EndsWith(ToLowerCase(name), ".shp")

\* the name of an entry without its extension
WithoutExtension(name) == SubSeq(name, 1, Len(name) - 1)

\* the listing has an entry of this name, compared without regard to letter case
HasEntry(names, name) ==
    \E i \in 1..Len(names) : ToLowerCase(names[i]) = ToLowerCase(name)

\* the .shx and .dbf entries of the same base name are in the listing
HasCompanions(names, shp) ==
    /\ HasEntry(names, WithoutExtension(shp) \o <<".shx">>)
    /\ HasEntry(names, WithoutExtension(shp) \o <<".dbf">>)

\* the indices of the .shp entries of a listing
ShpEntries(names) == {i \in 1..Len(names) : IsShpEntry(names[i])}

\* C12: a listing with a .shp entry in which every .shp entry has its .shx
\* and .dbf entries of the same base name is reported valid, and the file is
\* processed, whatever the letter case, the path and the base name
C12_CompleteArchiveIsValid ==
    LET names == selectedFile[1].names
    IN  (/\ Validated
         /\ ShpEntries(names) # { }
         /\ \A i \in ShpEntries(names) : HasCompanions(names, names[i]))
        => /\ validateZipContents(selectedFile[1]).isValid
           /\ status # "IDLE"

\* the message has the three lines of a candidate with these missing and
\* found files
Reports(message, shapefile, missing, found) ==
    \E k \in 1..Len(message) :
        /\ k + 2 <= Len(message)
        /\ message[k] = [text |-> "is missing:", names |-> <<shapefile>>]
        /\ message[k + 1] = [text |-> "Missing:", names |-> missing]
        /\ message[k + 2] = [text |-> "Found:", names |-> found]

\* C13: every .shp entry without one of its companions is reported with
\* exactly its missing files among base.shx and base.dbf and exactly its
\* files that were found; an entry with both companions is not reported
C13_IncompleteCandidatesReported ==
    LET names == selectedFile[1].names
        validation == validateZipContents(selectedFile[1])
        message == IF validation.error = None THEN << >> ELSE validation.error[1]
    IN  Validated =>
        \A i \in ShpEntries(names) :
            LET shp == ToLowerCase(names[i])
                base == WithoutExtension(shp)
                companions == << base \o <<".shx">>, base \o <<".dbf">> >>
                missing == SelectSeq(companions, LAMBDA f : ~HasEntry(names, f))
                found == SelectSeq(<<shp>> \o companions, LAMBDA f : HasEntry(names, f))
            IN  IF missing # << >>
                THEN Reports(message, shp, missing, found)
                ELSE ~\E k \in 1..Len(message) :
                         message[k] = [text |-> "is missing:", names |-> <<shp>>]

\* C14: the listing is reported valid only if it has a .shp entry and every
\* .shp entry has both companions; a listing without a .shp entry is
\* answered with the no-shapefile error
C14_ValidOnlyIfAllComplete ==
    LET names == selectedFile[1].names
        validation == validateZipContents(selectedFile[1])
    IN  Validated =>
        /\ validation.isValid =>
               /\ ShpEntries(names) # { }
               /\ \A i \in ShpEntries(names) : HasCompanions(names, names[i])
        /\ ShpEntries(names) = { } =>
               /\ ~validation.isValid
               /\ validation.error = Some(NoShapefileError)

\* C17: a file whose validation fails is never uploaded: the step that ends
\* its validation sends no request, creates no job, leaves the status as it
\* was and only opens the modal with the validator's message; a request in
\* flight is for a file the validator accepted, and a job exists only after
\* a request was sent
C17_InvalidFileNeverUploaded ==
    /\ [](/\ awaiting = "fetchUpload" => validateZipContents(selectedFile[1]).isValid
          /\ (\E j \in JobIds : store[j] # NoRecord) => posted >= 1)
    /\ [][(/\ awaiting = "validateZipContents"
            /\ ~validateZipContents(selectedFile[1]).isValid)
           => /\ posted' = posted
              /\ store' = store /\ pc' = pc /\ nextId' = nextId
              /\ status' = status /\ status' # "PROCESSING"
              /\ awaiting' = "none"
              /\ validationModal' =
                     [isOpen |-> TRUE,
                      message |-> validateZipContents(selectedFile[1]).error[1]]]_vars

\* the validation of an archive with a .shp entry and no .dbf entry has ended
C17_Witness ==
    /\ selectedFile = Some([readable |-> TRUE,
                            names |-> << <<"a", ".shp">>, <<"a", ".shx">> >>])
    /\ awaiting = "none"
    /\ validationModal.isOpen
    /\ Reports(validationModal.message, <<"a", ".shp">>, << <<"a", ".dbf">> >>,
               << <<"a", ".shp">>, <<"a", ".shx">> >>)
    /\ status = "IDLE"
    /\ posted = 0
    /\ \A j \in JobIds : store[j] = NoRecord

-----------------------------------------------------------------------------
(* Properties of the downloads and of the upload *)

\* C15: for a completed job the individual download answers with the content
\* of the individual file whose name is exactly the name asked for, for every
\* name of the job's individual files, and with 404 'File not found' for a
\* name that no individual file has
C15_IndividualDownloadByExactName ==
    /\ \A j \in JobIds :
           store[j].status = "completed" =>
               \A i \in 1..Len(store[j].individualFiles) :
                   LET file == store[j].individualFiles[i]
                       response == DownloadFileResponse(j, file.fileName, store[j])
                   IN  /\ response.code = 200
                       /\ response.filename = Some(file.fileName)
                       /\ response.body = Some(file.content)
    /\ (res.endpoint = "download-file" /\ res.found = "completed") =>
           LET files == store[res.id].individualFiles
               hits == {i \in 1..Len(files) : files[i].fileName = res.requested[1]}
           IN  IF hits # { }
               THEN /\ res.code = 200
                    /\ res.filename = res.requested
                    /\ \A i \in hits : res.body = Some(files[i].content)
               ELSE /\ res.code = 404
                    /\ res.error = Some("File not found")
                    /\ res.body = None

\* the second of two individual files was asked for and sent
C15_Witness ==
    /\ res.endpoint = "download-file"
    /\ res.found = "completed"
    /\ res.code = 200
    /\ res.requested = Some(<<"b", ".kml">>)
    /\ Len(store[res.id].individualFiles) = 2
    /\ store[res.id].individualFiles[2].fileName = <<"b", ".kml">>
    /\ store[res.id].individualFiles[1].content # store[res.id].individualFiles[2].content
    /\ res.body = Some(store[res.id].individualFiles[2].content)

\* C16: for a completed job with N >= 2 individual files the bundle holds
\* N + 1 entries: the combined content under kmlFileName, then every
\* individual file under its own name
C16_BundleHoldsCombinedAndSources ==
    (/\ res.endpoint = "download-all"
     /\ res.found = "completed"
     /\ Len(store[res.id].individualFiles) >= 2)
    => LET conversion == store[res.id]
           files == conversion.individualFiles
           entries == res.body[1]
       IN  /\ res.code = 200
           /\ Len(entries) = Len(files) + 1
           /\ entries[1] = [entryName |-> conversion.kmlFileName[1],
                            content |-> conversion.kmlContent[1]]
           /\ \A i \in 1..Len(files) :
                  entries[i + 1] = [entryName |-> files[i].fileName,
                                    content |-> files[i].content]

\* the bundle of a job with two individual files was sent
C16_Witness ==
    /\ res.endpoint = "download-all"
    /\ res.found = "completed"
    /\ res.code = 200
    /\ Len(store[res.id].individualFiles) = 2
    /\ Len(res.body[1]) = 3
    /\ res.body[1][1].entryName = CombinedFileName(store[res.id].originalFileName)

\* C18: the step that answers an upload with an id has saved the document
\* of that id with status processing and has started the run, which has made
\* no terminal write yet; and a status read for an id an upload answered with
\* never gets 404
C18_RecordPersistedBeforeResponse ==
    /\ [][(res'.endpoint = "upload" /\ res'.code = 200)
          => /\ store[res'.id] = NoRecord
             /\ store'[res'.id].status = "processing"
             /\ store'[res'.id].completedAt = None
             /\ pc'[res'.id] = "ensureExtractDir"]_vars
    /\ []((res.endpoint = "status" /\ pc[res.id] # "none") => res.code # 404)

\* the status of a job was read before the first step of its run
C18_Witness ==
    /\ res.endpoint = "status"
    /\ res.code = 200
    /\ pc[res.id] = "ensureExtractDir"
    /\ res.body[1].status = "processing"

\* C19: an upload answered with an id carried a file whose content type is
\* application/zip or whose name ends in .zip, of at most 50 MB; an upload
\* answered otherwise (refused by multer, without a file, or not saved) has
\* created no document and started no run
C19_OnlyArchivesAccepted ==
    /\ []((res.endpoint = "upload" /\ res.code = 200)
          => /\ res.file # None
             /\ \/ res.file[1].mimetype = "application/zip"
                \/ EndsWith(res.file[1].originalname, ".zip")
             /\ res.file[1].size <= 50 * 1024 * 1024)
    /\ [][(res'.endpoint = "upload" /\ res'.code # 200)
          => /\ store' = store
             /\ pc' = pc
             /\ loc' = loc]_vars

\* a file of exactly 50 MB that is an archive by its name only was accepted
C19_Witness ==
    /\ res.endpoint = "upload"
    /\ res.code = 200
    /\ res.file[1].mimetype = "text/plain"
    /\ res.file[1].originalname = <<"parcels", ".zip">>
    /\ res.file[1].size = 50 * 1024 * 1024
    /\ store[res.id].status = "processing"

Reads == {"status"} \cup Downloads

\* C20: a status or download request changes no document, creates no job and
\* touches no file; what it answers is determined by the document as it is,
\* so that two requests with no write between them get the same answer
C20_ReadsChangeNothing ==
    /\ [][res'.endpoint \in Reads
          => /\ store' = store
             /\ pc' = pc /\ loc' = loc /\ nextId' = nextId
             /\ disk' = disk /\ outFiles' = outFiles]_vars
    /\ []((res.endpoint = "status" /\ res.code # 500)
          => LET response == StatusResponse(res.id, store[res.id])
             IN  /\ res.code = response.code
                 /\ res.body = response.body
                 /\ res.error = response.error)
    /\ [][(/\ res.endpoint \in Reads /\ res.code # 500
           /\ res'.endpoint = res.endpoint /\ res'.code # 500
           /\ res'.id = res.id /\ res'.requested = res.requested)
          => /\ res'.code = res.code
             /\ res'.body = res.body
             /\ res'.filename = res.filename
             /\ res'.error = res.error]_vars

\* the status of a completed job was read a second time
C20_Witness ==
    /\ res.endpoint = "status"
    /\ res.code = 200
    /\ res.before = "completed"
    /\ res.body[1].status = "completed"
    /\ store[res.id].completedAt # None

-----------------------------------------------------------------------------
(* Properties of concurrent runs and of the pipeline *)

\* the paths that belong to a job: its extraction directory, its output
\* directory and its upload as multer stored it
Owned(j) ==
    {ExtractDir(j), OutputDir(j)}
    \cup (IF store[j] = NoRecord THEN { }
          ELSE {StoredUploadPath(j, store[j].originalFileName)})

\* C21: the paths two runs create, read or delete are disjoint, also for two
\* uploads of the same file name: no two runs stand at steps that use one path
C21_RunsUseDisjointPaths ==
    \A j, k \in DOMAIN store :
        j # k => Accessed(j) \cap Accessed(k) = { }

\* a directory listing holds a .shp file
HoldsShp(files) == \E f \in files : EndsWith(f, ".shp")

\* the subdirectories of an extracted archive that hold a .shp file, by index
ShpSubdirs(tree) == {i \in 1..Len(tree.dirs) : HoldsShp(tree.dirs[i].files)}

\* the search of the input directory of job j has ended and the converter
\* has not yet
Searched(j) == pc[j] \in {"ensureOutputDir", "pythonShell"}

\* C22 as stated: the extraction root is used when it holds a .shp file;
\* only otherwise the first subdirectory that holds one
C22_RootCheckedFirst ==
    \A j \in JobIds :
        Searched(j) =>
            LET tree == loc[j].tree[1]
            IN  /\ HoldsShp(tree.files) => loc[j].inputPath = Some(<< >>)
                /\ (~HoldsShp(tree.files) /\ ShpSubdirs(tree) # { }) =>
                       \E i \in ShpSubdirs(tree) :
                           /\ loc[j].inputPath = Some(<<tree.dirs[i].name>>)
                           /\ \A h \in ShpSubdirs(tree) : i <= h

\* C22 as amended: the first subdirectory that holds a .shp file is used
\* when there is one, whatever the root holds; only otherwise the root
C22_FirstShpSubdirElseRoot ==
    \A j \in JobIds :
        Searched(j) =>
            LET tree == loc[j].tree[1]
            IN  /\ ShpSubdirs(tree) # { } =>
                       \E i \in ShpSubdirs(tree) :
                           /\ loc[j].inputPath = Some(<<tree.dirs[i].name>>)
                           /\ \A h \in ShpSubdirs(tree) : i <= h
                /\ ShpSubdirs(tree) = { } => loc[j].inputPath = Some(<< >>)

\* the root and a subdirectory both hold a .shp file and the subdirectory
\* is handed to the converter
C22_Witness ==
    \E j \in JobIds :
        /\ pc[j] = "pythonShell"
        /\ HoldsShp(loc[j].tree[1].files)
        /\ ShpSubdirs(loc[j].tree[1]) = {1}
        /\ loc[j].inputPath = Some(<<"data">>)

\* C23 as stated: the converter is never started for an archive without a
\* .shp file in its root and in every subdirectory
C23_NoSourceFailsBeforeConverter ==
    \A j \in JobIds :
        pc[j] = "pythonShell" =>
            \/ HoldsShp(loc[j].tree[1].files)
            \/ ShpSubdirs(loc[j].tree[1]) # { }

\* C23 as amended: for an archive without a .shp file in its root and in
\* every subdirectory the search raises no error of its own: unless a
\* file-system call fails, the output directory is made and the converter is
\* started on the extraction root
C23_NoSourceRunsConverterOnRoot ==
    [][\A j \in JobIds :
           (/\ pc[j] = "readdirExtractDir"
            /\ pc'[j] # pc[j]
            /\ ~HoldsShp(loc[j].tree[1].files)
            /\ ShpSubdirs(loc[j].tree[1]) = { })
           => \/ /\ pc'[j] = "ensureOutputDir"
                 /\ loc'[j].inputPath = Some(<< >>)
                 /\ store'[j] = store[j]
              \/ /\ pc'[j] = "updateFailed"
                 /\ loc'[j].error = Some(FsErrorMessage)]_vars

\* the converter is about to run on the root of an archive without a .shp file
C23_Witness ==
    \E j \in JobIds :
        /\ pc[j] = "pythonShell"
        /\ ~HoldsShp(loc[j].tree[1].files)
        /\ ShpSubdirs(loc[j].tree[1]) = { }
        /\ Len(loc[j].tree[1].dirs) = 1
        /\ loc[j].inputPath = Some(<< >>)
        /\ store[j].status = "processing"

\* the indices of the lines that hold a marker or a header
LinesWith(lines, header) == {i \in 1..Len(lines) : Includes(lines[i], header)}

Least(S) == CHOOSE x \in S : \A y \in S : x <= y

\* the trimmed '- ' lines between the first line that holds the header and
\* the first blank line behind it
BulletsBehind(lines, header) ==
    IF LinesWith(lines, header) = { } THEN << >>
    ELSE LET first == Least(LinesWith(lines, header))
             blanks == {i \in (first + 1)..Len(lines) : Trim(lines[i]) = << >>}
             last == IF blanks = { } THEN Len(lines) ELSE Least(blanks) - 1
             section == [i \in 1..(last - first) |-> Trim(lines[first + i])]
         IN  SelectSeq(section,
                       LAMBDA line : /\ line # << >>
                                     /\ Head(line) = Bullet
                                     /\ ~Includes(line, header))

\* the error of a run whose output holds a marker, when the detail lines are
\* looked for behind the line that holds `header`
ErrorFromDetails(allOutput, header) ==
    LET details == BulletsBehind(allOutput, header)
    IN  IF details = << >> THEN allOutput
        ELSE IF header = ValidationMarker
        THEN << <<"Shapefile validation failed:">> >> \o details
        ELSE << <<"No valid shapefiles found. Files in your ZIP:">> >> \o details
             \o << << >>, <<"Please ensure your ZIP contains complete shapefiles">> >>

\* the run of job j has just thrown the error of the marker scan
MarkerThrown(j) == pc[j] = "updateFailed" /\ loc[j].allOutput # None

\* C24 as stated: the error of a run whose output holds a marker is built
\* from the '- ' lines that follow the marker up to the first blank line, and
\* is the raw output without such a line
C24_DetailsFollowMarker ==
    \A j \in JobIds :
        MarkerThrown(j) =>
            LET allOutput == loc[j].allOutput[1]
                marker == IF LinesWith(allOutput, ValidationMarker) # { }
                          THEN ValidationMarker ELSE NoValidMarker
            IN  loc[j].error = Some(ErrorFromDetails(allOutput, marker))

\* C24 as amended: with the validation marker the '- ' lines are those behind
\* the marker; with the no-valid-shapefiles marker alone they are those
\* behind the line 'Files found in the directory:'; the raw output is the
\* error without such a line; and the write of the catch block records that
\* error with status failed
C24_DetailsFollowMarkerOrHeader ==
    /\ [](\A j \in JobIds :
              MarkerThrown(j) =>
                  LET allOutput == loc[j].allOutput[1]
                      header == IF LinesWith(allOutput, ValidationMarker) # { }
                                THEN ValidationMarker ELSE FilesFoundHeader
                  IN  /\ HasMarker(allOutput)
                      /\ loc[j].error = Some(ErrorFromDetails(allOutput, header)))
    /\ [][\A j \in JobIds :
              (MarkerThrown(j) /\ store'[j] # store[j])
              => /\ store'[j].status = "failed"
                 /\ store'[j].error = loc[j].error]_vars

\* the output held the validation marker, a detail line, a blank line and a
\* second '- ' line: the error has the first detail line only
C24_Witness ==
    \E j \in JobIds :
        /\ MarkerThrown(j)
        /\ loc[j].allOutput[1] = << <<ValidationMarker>>, <<Bullet, "a.shp">>, <<Blank>>,
                                    <<Blank, Bullet, "b.shp", Blank>>, << >> >>
        /\ loc[j].error = Some(<< <<"Shapefile validation failed:">>, <<Bullet, "a.shp">> >>)


\* the output directory of job j holds a file with the .kml extension
HasKmlOutput(j) ==
    \E i \in 1..Len(outFiles[j]) : EndsWith(outFiles[j][i].fileName, ".kml")

\* the converter of job j has ended and its output held no marker
NoMarkerSeen(j) == loc[j].allOutput # None /\ ~HasMarker(loc[j].allOutput[1])

\* C25: a run whose converter printed no marker and left no .kml file throws
\* at the output check, with 'No KML files generated' unless the listing
\* itself failed; the failure write records status failed with the error
\* thrown; and no record is completed with an empty list of source outputs
C25_NoOutputFails ==
    /\ [][\A j \in JobIds :
              (pc[j] = "readdirOutputDir" /\ pc'[j] # pc[j] /\ ~HasKmlOutput(j))
              => /\ NoMarkerSeen(j)
                 /\ pc'[j] = "updateFailed"
                 /\ loc'[j].error \in {Some(NoKmlMessage), Some(FsErrorMessage)}]_vars
    /\ [][\A j \in JobIds :
              (pc[j] = "updateFailed" /\ store'[j] # store[j])
              => /\ store'[j].status = "failed"
                 /\ store'[j].error = loc[j].error]_vars
    /\ [](\A j \in JobIds :
              /\ pc[j] \in {"readFiles", "updateCompleted"} => HasKmlOutput(j)
              /\ store[j].status = "completed"
                 => Len(store[j].individualFiles) > 0)

\* a job is failed with 'No KML files generated' while its output directory
\* still holds a file that is not a .kml file
C25_Witness ==
    \E j \in JobIds :
        /\ store[j].status = "failed"
        /\ store[j].error = Some(NoKmlMessage)
        /\ Len(outFiles[j]) > 0


\* the .kml files of the output directory of job j, in listing order
KmlOutputs(j) ==
    SelectSeq(outFiles[j], LAMBDA file : EndsWith(file.fileName, ".kml"))

\* 'combined_' before the archive name, a '.zip' at its end replaced by '.kml'
CombinedName(name) ==
    IF Len(name) > 0 /\ name[Len(name)] = ".zip"
    THEN <<"combined_">> \o SubSeq(name, 1, Len(name) - 1) \o <<".kml">>
    ELSE <<"combined_">> \o name

\* C26: the update that completes a job whose output directory holds N >= 2
\* .kml files stores the N files in listing order with their names and
\* contents, the result of combineKmlFiles over the same N contents, and
\* 'combined_' + the archive name with its '.zip' suffix replaced by '.kml'
C26_CompletedHoldsSourcesAndCombination ==
    [][\A j \in JobIds :
          (store[j].status = "processing" /\ store'[j].status = "completed"
           /\ Len(KmlOutputs(j)) >= 2)
          => LET sources == KmlOutputs(j)
             IN  /\ store'[j].individualFiles = sources
                 /\ store'[j].processedFiles = [i \in 1..Len(sources) |-> sources[i].fileName]
                 /\ store'[j].kmlContent =
                       Some(combineKmlFiles([i \in 1..Len(sources) |-> sources[i].content]))
                 /\ store'[j].kmlFileName = Some(CombinedName(store[j].originalFileName))
                 /\ store'[j].id = store[j].id]_vars

\* a job is completed from a directory with a.kml, a.log and b.kml: two
\* source outputs, and parcels.zip has become combined_parcels.kml
C26_Witness ==
    \E j \in JobIds :
        /\ store[j].status = "completed"
        /\ Len(outFiles[j]) = 3
        /\ Len(store[j].individualFiles) = 2
        /\ store[j].individualFiles[2].fileName = <<"b", ".kml">>
        /\ store[j].kmlFileName = Some(<<"combined_", "parcels", ".kml">>)


\* the indices of a tag in a text
TagAt(s, tag) == {i \in 1..Len(s) : s[i] = tag}

\* the index of the first </Placemark> behind position i, 0 without one
CloseBehind(s, i) ==
    IF \E k \in TagAt(s, PC) : k > i
    THEN Least({k \in TagAt(s, PC) : k > i})
    ELSE 0

\* the <Placemark> tags that open a fragment: a </Placemark> follows, and the
\* tag does not lie inside a fragment opened before it
FragmentStarts(s) ==
    {i \in TagAt(s, PO) :
        /\ CloseBehind(s, i) # 0
        /\ \A h \in TagAt(s, PO) : h < i => \E k \in TagAt(s, PC) : h < k /\ k < i}

\* the Placemark fragments of a text, from left to right
FragmentsOf(s) ==
    [n \in 1..Cardinality(FragmentStarts(s)) |->
        LET i == CHOOSE i \in FragmentStarts(s) :
                     Cardinality({h \in FragmentStarts(s) : h < i}) = n - 1
        IN  SubSeq(s, i, CloseBehind(s, i))]

\* the part of a text from the first `open` tag to the first `close` tag
\* behind it, << >> if there is none
Section(s, open, close) ==
    IF \E i \in TagAt(s, open), k \in TagAt(s, close) : i < k
    THEN LET i == Least(TagAt(s, open))
         IN  SubSeq(s, i, Least({k \in TagAt(s, close) : k > i}))
    ELSE << >>

DirectTier(s) == FragmentsOf(s)
DocumentTier(s) == FragmentsOf(Section(s, DO, DC))
RootTier(s) == FragmentsOf(Section(s, KO, KC))

\* the three tiers in their order
ThreeTiers(s) ==
    IF DirectTier(s) # << >> THEN DirectTier(s)
    ELSE IF DocumentTier(s) # << >> THEN DocumentTier(s)
    ELSE RootTier(s)

\* C27: the fragments a source contributes are the direct Placemark matches
\* over its whole text if there is any, otherwise the matches inside its
\* Document section if there is any, otherwise the matches between its kml
\* tags; and the document built holds exactly these fragments
C27_ThreeTierFallback ==
    (Len(perSource) = 1 /\ lastSource # None)
    => /\ perSource[1] = ThreeTiers(lastSource[1])
       /\ FragmentsOf(combinedKml) = ThreeTiers(lastSource[1])

\* a source whose Document section holds a fragment other than the one the
\* direct scan finds: the direct match is what the source contributes
C27_Witness ==
    /\ Len(perSource) = 1 /\ lastSource # None
    /\ DocumentTier(lastSource[1]) # << >>
    /\ DirectTier(lastSource[1]) # DocumentTier(lastSource[1])
    /\ perSource[1] = DirectTier(lastSource[1])

\* no source has a fragment that only the Document tier or the root tier reaches
LaterTiersFindNothingNew ==
    (lastSource # None /\ DirectTier(lastSource[1]) = << >>)
    => DocumentTier(lastSource[1]) = << >> /\ RootTier(lastSource[1]) = << >>


\* the contents of the .kml files of job j that hold a fragment
WithFragments(j) ==
    LET sources == KmlOutputs(j)
        contents == [i \in 1..Len(sources) |-> sources[i].content]
    IN  SelectSeq(contents, LAMBDA content : ThreeTiers(content) # << >>)

\* C28: with N >= 2 .kml files the step that reads and combines them throws
\* only when a read fails; the combined document is the one built from the
\* sources that hold a fragment, so a source without one adds nothing; and
\* when no source holds one the job is completed with the wrapper document
C28_EmptySourcesAddNothing ==
    [][\A j \in JobIds :
          Len(KmlOutputs(j)) >= 2
          => /\ (pc[j] = "readFiles" /\ pc'[j] # pc[j])
                => \/ /\ pc'[j] = "updateCompleted"
                      /\ loc'[j].kmlContent = Some(combineKmlFiles(WithFragments(j)))
                   \/ /\ pc'[j] = "updateFailed"
                      /\ loc'[j].error = Some(FsErrorMessage)
             /\ (pc[j] = "updateCompleted" /\ store'[j] # store[j])
                => /\ store'[j].status = "completed"
                   /\ store'[j].kmlContent = Some(combineKmlFiles(WithFragments(j)))
                   /\ WithFragments(j) = << >>
                      => store'[j].kmlContent = Some(CombinedHeader \o CombinedFooter)]_vars

\* a job is completed from two .kml files without a fragment: its document is
\* the wrapper alone
C28_Witness ==
    \E j \in JobIds :
        /\ store[j].status = "completed"
        /\ Len(store[j].individualFiles) = 2
        /\ \A i \in 1..2 : ThreeTiers(store[j].individualFiles[i].content) = << >>
        /\ store[j].kmlContent = Some(CombinedHeader \o CombinedFooter)


\* the run of job j stands at one of its two writes and takes the step
Writes(j) == pc[j] \in {"updateCompleted", "updateFailed"} /\ pc'[j] # pc[j]

\* C30: a write of the run of job A keeps the id and the originalFileName of
\* A's record and leaves the record of every other job as it is
C30_WritesKeepIdentityAndOtherJobs ==
    [][\A a \in DOMAIN store :
          Writes(a)
          => /\ store[a] # NoRecord
                => /\ store'[a] # NoRecord
                   /\ store'[a].id = store[a].id
                   /\ store'[a].originalFileName = store[a].originalFileName
             /\ \A k \in DOMAIN store \ {a} : store'[k] = store[k]]_vars

\* the job submitted second is completed while the job submitted first is
\* still processing
C30_Witness ==
    /\ DOMAIN store = ConcurrentIds
    /\ store[1] # NoRecord /\ store[2] # NoRecord
    /\ store[1].createdAt < store[2].createdAt
    /\ store[1].status = "processing"
    /\ store[2].status = "completed"
    /\ store[2].id = 2 /\ store[2].originalFileName \in UploadNames


\* the client is not yet done with a read of the job's status or output
ReadPending == awaiting \in {"pollStatus", "fetchStatus", "fetchDownload"}

\* the record of the job the client polls is completed or failed
PolledJobTerminal ==
    /\ clientConversionId # None
    /\ store[clientConversionId[1]].status \in {"completed", "failed"}

\* C29: a status response that reports processing makes the client schedule
\* the next read; once the job is completed or failed the client leaves
\* PROCESSING; it shows SUCCESS only behind a completed status and the
\* download of the combined file, and behind a failed status it shows ERROR
\* with the error of the record; and outside PROCESSING no read is pending
C29_PollsUntilTerminal ==
    /\ [][(awaiting = "fetchStatus" /\ res'.endpoint = "status" /\ res'.code = 200)
          => /\ res'.found = "processing"
                => awaiting' = "pollStatus" /\ status' = "PROCESSING"
             /\ res'.found = "failed"
                => /\ status' = "ERROR"
                   /\ clientError' = store[clientConversionId[1]].error
                   /\ awaiting' = "none"
             /\ res'.found = "completed"
                => awaiting' = "fetchDownload" /\ status' = "PROCESSING"]_vars
    /\ [][(status = "PROCESSING" /\ status' = "SUCCESS")
          => /\ awaiting = "fetchDownload"
             /\ statusData # None /\ statusData[1].status = "completed"
             /\ res'.endpoint = "download" /\ res'.code = 200
             /\ kmlResult' # None
             /\ Some(kmlResult'[1].content) = store[clientConversionId[1]].kmlContent
             /\ Some(kmlResult'[1].fileName) = store[clientConversionId[1]].kmlFileName]_vars
    /\ []((status = "PROCESSING") \/ ~ReadPending)
    /\ (status = "PROCESSING" /\ PolledJobTerminal) ~> (status # "PROCESSING")

\* the client shows the combined document of the completed job and has no
\* read pending
C29_Witness ==
    /\ status = "SUCCESS"
    /\ ~ReadPending
    /\ PolledJobTerminal
    /\ kmlResult # None
    /\ Some(kmlResult[1].content) = store[clientConversionId[1]].kmlContent
    /\ lastRead[clientConversionId[1]] = "completed"


\* the steps of a run that remove a path
RemovalSteps ==
    {"removeExtractDir", "removeOutputDir", "removeFilePath",
     "cleanupExtractDir", "cleanupOutputDir", "cleanupFilePath"}

\* C31: a path of a job (its extraction directory, its output directory, its
\* stored upload) leaves the disk only when the record of the job is already
\* completed or failed, and a run stands at a removal only then
C31_ReclamationFollowsTerminalWrite ==
    /\ [][\A j \in JobIds :
              (\E path \in Owned(j) : path \in disk /\ path \notin disk')
              => store[j].status \in Terminal]_vars
    /\ [](\A j \in JobIds :
              pc[j] \in RemovalSteps => store[j].status \in Terminal)

\* a run has returned from the success path: the record is completed and the
\* three paths of the job are gone
C31_Witness ==
    \E j \in JobIds :
        /\ pc[j] = "returned"
        /\ store[j].status = "completed"
        /\ Owned(j) \cap disk = { }


\* C32: once a status read has reported a job as completed, its record stays
\* completed and a download for its id that finds the record is answered
\* with 200 and the stored content
C32_ReadCompletedStaysCompleted ==
    \A j \in JobIds :
        lastRead[j] = "completed"
        => /\ store[j].status = "completed"
           /\ (res.id = j /\ res.endpoint = "download" /\ res.code # 500)
              => res.code = 200 /\ res.body = store[j].kmlContent
           /\ (res.id = j /\ res.endpoint = "download-all" /\ res.code # 500)
              => res.code = 200


\* a call of handleFileSelect has uploaded its file and waits for a read of
\* its job
FirstPolls == closure.resultId # None /\ awaiting \in {"pollStatus", "fetchStatus", "fetchDownload"}
SecondPolls ==
    second.resultId # None /\ second.awaiting \in {"pollStatus", "fetchStatus", "fetchDownload"}

\* C33: a client never has two upload-and-poll chains at once: a file
\* selected while another is validated, uploaded or polled starts no second
\* job that is polled beside the first
C33_OneChainAtATime == ~(FirstPolls /\ SecondPolls)


\* the directories an entry name lies in, from the root down
DirectoryOf(name) ==
    LET comps == Components(name) IN SubSeq(comps, 1, Len(comps) - 1)

\* C34: when the directory search has ended for an archive the validator
\* accepted, the input directory directly contains an entry of the archive
\* whose name ends in '.shp' as the server tests it
C34_InputDirectoryHoldsSource ==
    \A j \in JobIds :
        (Searched(j) /\ closure.file # None)
        => \E i \in 1..Len(closure.file[1].names) :
              /\ DirectoryOf(closure.file[1].names[i]) = loc[j].inputPath[1]
              /\ EndsWith(closure.file[1].names[i], ".shp")


\* the converter of run j has ended with a process error: the 'error' listener
\* has thrown (the launch failed) or pyshell.end has reported an error
ProcessError(j) ==
    \/ pc[j] = "pythonShell" /\ ~serverUp
    \/ pc[j] = "updateFailed" /\ loc[j].error = Some(ExecutionFailedMessage)

\* C35: when the converter subprocess ends with a process error (launch failure
\* or error reported at end), the job ends FAILED with the fixed message
\* 'Failed to execute shapefile conversion script'
C35_ProcessErrorEndsFailed ==
    \A j \in JobIds :
        ProcessError(j)
            ~> (store[j].status = "failed" /\ store[j].error = Some(ExecutionFailedMessage))

\* what a process error leaves in the record: a record that carries the fixed
\* message holds no content and no output file
ProcessErrorStoresNothing ==
    \A j \in JobIds :
        (store[j].status = "failed" /\ store[j].error = Some(ExecutionFailedMessage))
        => (store[j].kmlContent = None /\ store[j].individualFiles = << >>)


\* the converter of job j has ended and its output held a marker
MarkerSeen(j) == loc[j].allOutput # None /\ HasMarker(loc[j].allOutput[1])

\* C36: a run whose captured output holds a failure marker goes to the catch
\* block, whatever the output directory holds, and the write it makes there
\* records status failed with the error thrown and stores no content and no
\* output file; the output directory is listed only behind an output without
\* a marker, and its files are read only behind that listing
C36_MarkerFailsDespiteOutputs ==
    /\ [](\A j \in JobIds :
              /\ MarkerSeen(j) => pc[j] = "updateFailed"
              /\ pc[j] = "readdirOutputDir" => NoMarkerSeen(j))
    /\ [][\A j \in JobIds :
              (MarkerSeen(j) /\ store'[j] # store[j])
              => /\ store'[j].status = "failed"
                 /\ store'[j].error = loc[j].error
                 /\ store'[j].kmlContent = None
                 /\ store'[j].individualFiles = << >>]_vars
    /\ [][\A j \in JobIds :
              (pc'[j] = "readFiles" /\ pc[j] # "readFiles")
              => pc[j] = "readdirOutputDir"]_vars

\* a job is failed with the error of the validation marker and without a
\* stored file while its output directory holds a .kml file
C36_Witness ==
    \E j \in JobIds :
        /\ store[j].status = "failed"
        /\ pc[j] = "cleanupExtractDir"
        /\ store[j].error # None
        /\ Len(store[j].error[1]) > 0
        /\ store[j].error[1][1] = <<"Shapefile validation failed:">>
        /\ store[j].individualFiles = << >>
        /\ HasKmlOutput(j)


\* the endpoints that look a job up by its id
LookupEndpoints == {"status", "download", "download-file", "download-all"}

\* the exchange just answered came from a lookup that found no record
AnsweredWithoutRecord ==
    /\ res.endpoint \in LookupEndpoints
    /\ res.code # 500
    /\ store[res.id] = NoRecord

\* C37: a status or download request for an id without a record, whose lookup
\* did not itself fail, is answered 404 'Conversion not found' and never with
\* the 400 of the completion gate, and the step that answers it leaves the
\* store as it was, so the id still has no record
C37_UnknownIdNotFound ==
    /\ [](AnsweredWithoutRecord
              => /\ res.code = 404
                 /\ res.error = Some("Conversion not found")
                 /\ res.found = "none")
    /\ [][(res'.endpoint \in LookupEndpoints /\ store[res'.id] = NoRecord)
              => store' = store]_vars

\* a download request for an id that was never issued has been answered 404
C37_Witness ==
    /\ res.endpoint = "download"
    /\ res.code = 404
    /\ store[res.id] = NoRecord
    /\ nextId = 1


\* what the second tier matches in a text: the Placemark matches inside the
\* first Document section
SecondTier(s) ==
    IF MatchDocument(s) = None THEN << >> ELSE MatchPlacemarks(MatchDocument(s)[1])

\* what the third tier matches in a text: the Placemark matches between the
\* kml tags
ThirdTier(s) ==
    IF MatchKml(s) = None THEN << >> ELSE MatchPlacemarks(MatchKml(s)[1])

\* C38: the fragments the three-tier extraction takes from a source are the
\* matches of the first tier alone, and for a source in which the first tier
\* matches nothing the second and the third tier match nothing either
C38_LaterTiersAddNothing ==
    (Len(perSource) = 1 /\ lastSource # None)
    => /\ perSource[1] = MatchPlacemarks(lastSource[1])
       /\ MatchPlacemarks(lastSource[1]) = << >>
          => SecondTier(lastSource[1]) = << >> /\ ThirdTier(lastSource[1]) = << >>

\* a source with a Document section that holds an opening Placemark tag and
\* with a closing Placemark tag outside it: no tier matches, nothing is taken
C38_Witness ==
    /\ Len(perSource) = 1 /\ lastSource # None
    /\ perSource[1] = << >>
    /\ MatchDocument(lastSource[1]) # None
    /\ \E i \in 1..Len(MatchDocument(lastSource[1])[1]) :
           MatchDocument(lastSource[1])[1][i] = PO
    /\ \E i \in 1..Len(lastSource[1]) : lastSource[1][i] = PC

=============================================================================
